---------------------------- MODULE Spec2Model ----------------------------
(***************************************************************************)
(* Model of the Skeleton Ripper of ReelRecon (src/skeleton_ripper):        *)
(* the batched extractor, the pipeline orchestrator and the transcript     *)
(* cache.                                                                  *)
(*                                                                         *)
(* Modelling conventions                                                   *)
(*  - Calls to the logger are not modelled (no state, no outcome).         *)
(*  - A Python dict is a record; its field keys is the set of keys the     *)
(*    dict holds, a key it does not hold has the neutral value of its type.*)
(*  - A transcript text is the record of what the validity predicates read *)
(*    of it: whether it holds any character, and how many words of each    *)
(*    kind it holds.                                                       *)
(*  - The LLM is an oracle fixed by the initial state: llm[i] says what    *)
(*    the model does with transcript i whenever a request contains it.     *)
(***************************************************************************)
EXTENDS Integers, Sequences, FiniteSets, TLC

VARIABLES
    \* ---- environment
    llm,            \* [video id -> disposition of the LLM for that transcript]
    env,            \* outcomes of the other collaborators of one run
    \* ---- BatchedExtractor.extract_all
    ex_pc,          \* "idle" | "running" | "done"
    ex_input,       \* the transcripts handed to extract_all (video ids)
    requested_size, \* the batch_size argument of BatchedExtractor.__init__
    batch_size,     \* self.batch_size
    batch_idx,      \* number of batches already processed
    ex_result,      \* BatchExtractionResult accumulated by extract_all
    ex_requests,    \* the batches actually sent to llm_client.complete, in order
    \* ---- SkeletonRipperPipeline.run
    pc,             \* position inside run
    status,         \* progress.status
    errors,         \* progress.errors
    transcripts,    \* the list returned by _scrape_and_transcribe
    creator_idx,    \* creators already processed by _scrape_and_transcribe
    job,            \* JobResult: success, skeletons, aggregated, synthesis
    invoked,        \* the stages run has invoked so far
    llm_calls,      \* LLM requests issued during run
    \* ---- SkeletonRipperPipeline._scrape_and_transcribe
    feed,           \* what the listing, download and transcription calls do
    acq,            \* the loop over one creator's reels: its locals, and what
                    \* the cache held when the creator was reached
    calls,          \* the download and transcribe calls made so far, in order,
                    \* and the number of reels tried so far
    cb,             \* the progress callback of run: whether there is one, whether it
                    \* raises, the statuses it was called with, whether _notify
                    \* caught an exception of it
    \* ---- TranscriptCache
    cache_files,    \* [file name -> <<>> (no such file) | <<text>>]
    cache_ret,      \* the last cache operation: its arguments and what it returned
    cache_bypass,   \* some set(..., validate=False) has written a file
    cache_expect,   \* <<t>> after set(WatchedKey, t) returned true, until the next
                    \* delete, clear_all or set on WatchedKey; <<>> otherwise
    \* ---- LLMClient.chat
    net,            \* what the backend does at the 1st, 2nd, ... request of a call
    chat,           \* one chat call: its position, attempts, sleeps and outcome
    \* ---- SkeletonAggregator.aggregate
    agg,            \* one list of skeletons, a reordering of it, and both results
    \* ---- PatternSynthesizer.synthesize
    syn,            \* one synthesize call: its data, the replies of the LLM, its result
    \* ---- two jobs at work on their reels at the same time
    workers,        \* [job -> its creator, target, reels, position and transcripts]
    temp,           \* the files of the directory output/skeleton_temp
    \* ---- the asset store (storage/models.py)
    db,             \* the tables assets, collections and asset_collections
    db_ret          \* the last operation on the store and how it ended

vars == <<llm, env, ex_pc, ex_input, requested_size, batch_size, batch_idx, ex_result, ex_requests,
          pc, status, errors, transcripts, creator_idx, job, invoked, llm_calls,
          feed, acq, calls, cb, cache_files, cache_ret, cache_bypass, cache_expect,
          net, chat, agg, syn, workers, temp, db, db_ret>>

extractorVars == <<ex_pc, ex_input, requested_size, batch_size, batch_idx, ex_result,
                   ex_requests>>
acquireVars   == <<feed, acq, calls>>
pipelineVars  == <<pc, status, errors, transcripts, creator_idx, job, invoked, llm_calls,
                   acquireVars, cb>>
cacheVars     == <<cache_files, cache_ret, cache_bypass, cache_expect>>
clientVars    == <<net, chat>>
\* The variables of the components that the extractor, the pipeline and the
\* cache do not touch.
aggVars       == <<agg>>
synVars       == <<syn>>
jobsVars      == <<workers, temp>>
storageVars   == <<db, db_ret>>
sideVars      == <<clientVars, aggVars, synVars, jobsVars, storageVars>>

-----------------------------------------------------------------------------
(* Bounds of the model *)

MaxItems    == 4      \* transcripts handed to one extract_all call
MaxCreators == 2      \* creators of one job
MaxTarget   == 2      \* videos_per_creator of one job
MaxReels    == 3      \* reels one creator has
MaxRetries  == 2      \* max_retries of an LLM client
MaxSkeletons == 3     \* skeletons handed to one aggregate call
MaxAssets   == 2      \* assets the store ever holds
MaxCollections == 2   \* collections of the store
MaxGarbage  == 6      \* occurrences of a garbage pattern in a text

-----------------------------------------------------------------------------
(* Small helpers *)

Min(a, b) == IF a < b THEN a ELSE b
Max(a, b) == IF a > b THEN a ELSE b

Range(s) == {s[i] : i \in 1..Len(s)}
Front(s) == SubSeq(s, 1, Len(s) - 1)
Last(s)  == s[Len(s)]

RECURSIVE Concat(_)
Concat(ss) == IF ss = <<>> THEN <<>> ELSE Head(ss) \o Concat(Tail(ss))

Unknown == 0          \* stands for the id 'unknown' of .get('video_id', 'unknown')
ForeignId == MaxItems + MaxCreators * MaxReels + 1   \* an id no transcript has

-----------------------------------------------------------------------------
(* Transcript texts and the two validity predicates (cache.py) *)

MIN_TRANSCRIPT_WORDS == 10

garbage_patterns == {"music", "note", "subscribe", "[applause]", "[laughter]"}

\* A text: chars = it holds at least one character (possibly only white space);
\* plain = words holding no garbage pattern; music = words that each hold the
\* pattern 'music' once (in any letter case); applause = words '[applause]'.
Text(c, p, m, a) == [chars |-> c, plain |-> p, music |-> m, applause |-> a]

EmptyText == Text(FALSE, 0, 0, 0)
BlankText == Text(TRUE, 0, 0, 0)

\* len(transcript.split())
WordCount(t) == t.plain + t.music + t.applause

\* transcript.lower().count(pattern)
PatternCount(t, pattern) ==
    CASE pattern = "music"      -> t.music
      [] pattern = "[applause]" -> t.applause
      [] OTHER                  -> 0

\* transcript.strip() is non-empty
StripNonEmpty(t) == WordCount(t) > 0

is_valid_transcript(t) ==
    IF ~t.chars \/ ~StripNonEmpty(t) THEN FALSE
    ELSE WordCount(t) >= MIN_TRANSCRIPT_WORDS

GoodText == Text(TRUE, MIN_TRANSCRIPT_WORDS + 2, 0, 0)

-----------------------------------------------------------------------------
(* Transcript dicts and skeleton dicts *)

CreatorName(c) == IF c = 1 THEN "alice" ELSE IF c = 2 THEN "bob" ELSE "carol"

\* The transcript dict of video i of creator c, as _scrape_and_transcribe builds it.
TranscriptDict(i, c, txt, cached) ==
    [video_id |-> i, username |-> CreatorName(c), platform |-> "instagram",
     views |-> 100 * i, likes |-> 10 * i, transcript |-> txt, from_cache |-> cached]

REQUIRED_SKELETON_FIELDS ==
    <<"video_id", "hook", "hook_technique", "value", "value_structure", "cta", "cta_type">>

VALID_HOOK_TECHNIQUES  == {"curiosity", "contrast", "result", "question", "story", "shock"}
VALID_VALUE_STRUCTURES == {"steps", "single_insight", "framework", "story", "listicle", "transformation"}
VALID_CTA_TYPES        == {"follow", "comment", "share", "link", "none"}

\* The JSON values the LLM can put under a key that asks for a number
\* (prompts.py lines 22-29): a number, a non-empty string, null.
Number(n)  == [type |-> "number", n |-> n]
JsonString == [type |-> "string", n |-> 0]
Null       == [type |-> "null", n |-> 0]

\* A skeleton dict as the LLM returns it: keys = the keys the dict holds; a key
\* the dict does not hold has the neutral value of its type.
GoodObj(i) ==
    [keys |-> Range(REQUIRED_SKELETON_FIELDS),
     video_id |-> i, hook |-> "h", hook_technique |-> "story", value |-> "v",
     value_structure |-> "steps", cta |-> "c", cta_type |-> "none",
     creator_username |-> "", platform |-> "", views |-> 0, likes |-> 0,
     hook_word_count |-> Null, total_word_count |-> Null,
     estimated_duration_seconds |-> Null]

MissingFieldObj(i) == [GoodObj(i) EXCEPT !.keys = @ \ {"cta"}, !.cta = ""]
EmptyFieldObj(i)   == [GoodObj(i) EXCEPT !.hook = ""]
BadEnumObj(i)      == [GoodObj(i) EXCEPT !.hook_technique = "humor"]

\* not skeleton[field]
Falsy(field, v) == IF field = "video_id" THEN v = 0 ELSE v = ""

\* skeleton.get('video_id', 'unknown')
GetVideoId(s) == IF "video_id" \in s.keys THEN s.video_id ELSE Unknown

validate_skeleton(s) ==
    /\ \A k \in 1..Len(REQUIRED_SKELETON_FIELDS) :
          LET f == REQUIRED_SKELETON_FIELDS[k]
          IN  f \in s.keys /\ ~Falsy(f, s[f])
    /\ s.hook_technique \in VALID_HOOK_TECHNIQUES
    /\ s.value_structure \in VALID_VALUE_STRUCTURES
    /\ s.cta_type \in VALID_CTA_TYPES

-----------------------------------------------------------------------------
(* Prompt construction (prompts.py) *)

\* The template as str.format reads it: literal text and replacement fields.
\* The braces of the JSON example object open a replacement field whose name is
\* the text up to the first colon; {batch_transcripts} is the second field.
SKELETON_EXTRACT_BATCH_PROMPT ==
    << [kind |-> "text",  name |-> "instructions"],
       [kind |-> "field", name |-> "\n  \"video_id\""],
       [kind |-> "text",  name |-> "separator"],
       [kind |-> "field", name |-> "batch_transcripts"] >>

\* template.format(**kwargs): KeyError when a replacement field names no keyword
\* argument; otherwise the rendered text, which holds what kwargs held.
StrFormat(template, kwargs) ==
    IF \E k \in 1..Len(template) :
           template[k].kind = "field" /\ template[k].name \notin DOMAIN kwargs
    THEN [raised |-> TRUE,  items |-> <<>>]
    ELSE [raised |-> FALSE, items |-> kwargs["batch_transcripts"]]

\* One "### VIDEO: id (views)\n transcript" section per transcript, in order.
format_batch_transcripts(batch) == [k \in 1..Len(batch) |-> batch[k].video_id]

get_extraction_prompt(batch) ==
    StrFormat(SKELETON_EXTRACT_BATCH_PROMPT,
              [batch_transcripts |-> format_batch_transcripts(batch)])

-----------------------------------------------------------------------------
(* The LLM (llm_client.complete) as the extractor sees it *)

Disp == {"ok", "missing", "empty", "badenum", "malformed", "omit", "foreign", "dup", "raise"}

\* What the LLM returns for one transcript of a prompt.
ObjectsFor(i) ==
    CASE llm[i] = "ok"      -> <<GoodObj(i)>>
      [] llm[i] = "missing" -> <<MissingFieldObj(i)>>
      [] llm[i] = "empty"   -> <<EmptyFieldObj(i)>>
      [] llm[i] = "badenum" -> <<BadEnumObj(i)>>
      [] llm[i] = "foreign" -> <<GoodObj(ForeignId)>>
      [] llm[i] = "dup"     -> <<GoodObj(i), GoodObj(i)>>
      [] OTHER              -> <<>>

\* The response to a prompt holding the transcripts `items`: the call raises, or
\* returns text that is no JSON, or returns a JSON array.
LLMComplete(items) ==
    IF \E k \in 1..Len(items) : llm[items[k]] = "raise"
    THEN [kind |-> "raise", objs |-> <<>>]
    ELSE IF \E k \in 1..Len(items) : llm[items[k]] = "malformed"
    THEN [kind |-> "garbage", objs |-> <<>>]
    ELSE [kind |-> "array", objs |-> Concat([k \in 1..Len(items) |-> ObjectsFor(items[k])])]

\* _parse_response: the list of dicts, or None
ParseFailed(response) == response.kind # "array"

-----------------------------------------------------------------------------
(* BatchedExtractor (extractor.py) *)

DEFAULT_BATCH_SIZE == 4
MAX_RETRIES == 2

\* __init__: self.batch_size = min(max(batch_size, 1), 5)
ClampBatchSize(n) == Min(Max(n, 1), 5)

EmptyResult == [successful |-> <<>>, failed_video_ids |-> <<>>, total_attempts |-> 0,
                requests |-> <<>>]

\* result.successful.extend(...), result.failed_video_ids.extend(...),
\* result.total_attempts += ...
Extend(r, sub) ==
    [successful       |-> r.successful \o sub.successful,
     failed_video_ids |-> r.failed_video_ids \o sub.failed_video_ids,
     total_attempts   |-> r.total_attempts + sub.total_attempts,
     requests         |-> r.requests \o sub.requests]

\* Only the id of the first transcript.
BatchIds_FirstOnly(batch) == <<batch[1].video_id>>

\* [t.get('video_id', 'unknown') for t in batch]
BatchIds(batch) == [k \in 1..Len(batch) |-> batch[k].video_id]

\* _find_original: the first transcript of the batch with that id, as a sequence
\* of zero or one element.
find_original(batch, video_id) ==
    LET hits == {k \in 1..Len(batch) : batch[k].video_id = video_id}
    IN  IF hits = {} THEN <<>>
        ELSE <<batch[CHOOSE k \in hits : \A j \in hits : k <= j]>>

\* Lines 180-188: the skeleton with the metadata of the original copied in.
Enrich(skeleton, original) ==
    [skeleton EXCEPT
        !.keys = @ \cup {"creator_username", "platform", "views", "likes"},
        !.creator_username = original.username,
        !.platform = original.platform,
        !.views = original.views,
        !.likes = original.likes]

\* Lines 171-193: validate each returned dict and collect it.
RECURSIVE CollectParsed(_, _, _)
CollectParsed(batch, parsed, r) ==
    IF parsed = <<>> THEN r
    ELSE LET skeleton == Head(parsed)
             original == find_original(batch, GetVideoId(skeleton))
             out == IF original # <<>> THEN Enrich(skeleton, original[1]) ELSE skeleton
         IN  IF validate_skeleton(skeleton)
             THEN CollectParsed(batch, Tail(parsed),
                                [r EXCEPT !.successful = Append(@, out)])
             ELSE CollectParsed(batch, Tail(parsed),
                                [r EXCEPT !.failed_video_ids = Append(@, GetVideoId(skeleton))])

RECURSIVE extract_batch_with_retry(_, _)
RECURSIVE handle_parse_failure(_, _)

extract_batch_with_retry(batch, attempt) ==
    LET result == [EmptyResult EXCEPT !.total_attempts = 1]
        prompt == get_extraction_prompt(batch)
        response == LLMComplete(prompt.items)
        sent == [result EXCEPT !.requests = <<prompt.items>>]
    IN  IF batch = <<>> THEN result
        ELSE IF prompt.raised
             THEN [result EXCEPT !.failed_video_ids = BatchIds(batch)]
        ELSE IF response.kind = "raise"
             THEN [sent EXCEPT !.failed_video_ids = BatchIds(batch)]
        ELSE IF ParseFailed(response)
             THEN LET sub == handle_parse_failure(batch, attempt)
                  IN  [sub EXCEPT !.requests = sent.requests \o @]
        ELSE CollectParsed(batch, response.objs, sent)

handle_parse_failure(batch, attempt) ==
    IF attempt >= MAX_RETRIES
    THEN [EmptyResult EXCEPT !.failed_video_ids = BatchIds(batch)]
    ELSE IF Len(batch) > 1
    THEN LET mid == Len(batch) \div 2
             first_half == SubSeq(batch, 1, mid)
             second_half == SubSeq(batch, mid + 1, Len(batch))
             first_result == extract_batch_with_retry(first_half, attempt + 1)
             second_result == extract_batch_with_retry(second_half, attempt + 1)
         IN  Extend(Extend(EmptyResult, first_result), second_result)
    ELSE [EmptyResult EXCEPT !.failed_video_ids = <<batch[1].video_id>>]

\* Only the slices that are full.
create_batches_FullOnly(ts, size) ==
    [b \in 1..(Len(ts) \div size) |-> SubSeq(ts, (b - 1) * size + 1, b * size)]

\* _create_batches: slices of batch_size transcripts, in order.
create_batches(ts, size) ==
    [b \in 1..((Len(ts) + size - 1) \div size) |->
        SubSeq(ts, (b - 1) * size + 1, Min(b * size, Len(ts)))]

\* extract_all, all batches at once (used by the pipeline).
RECURSIVE ExtractBatches(_, _)
ExtractBatches(batches, r) ==
    IF batches = <<>> THEN r
    ELSE ExtractBatches(Tail(batches), Extend(r, extract_batch_with_retry(Head(batches), 0)))

extract_all(ts, size) == ExtractBatches(create_batches(ts, size), EmptyResult)

-----------------------------------------------------------------------------
(* extract_all as a process: one step per batch *)

\* Sizes below, inside and above the range the code allows.
RequestedBatchSizes == {0, 3, DEFAULT_BATCH_SIZE, 7}

ItemIds == 1..Max(MaxItems, MaxCreators * MaxReels)

\* The transcripts 1..n, alternating between two creators.
InputOf(n) == [i \in 1..n |-> TranscriptDict(i, 1 + (i % 2), GoodText, FALSE)]

Batches == create_batches(ex_input, batch_size)

\* BatchedExtractor(llm_client, batch_size).extract_all(transcripts) is entered.
ExtractAllCall ==
    /\ ex_pc = "idle"
    /\ \E n \in 0..MaxItems, size \in RequestedBatchSizes :
          /\ \A i \in 1..MaxItems : i > n => llm[i] = "ok"
          /\ ex_input' = InputOf(n)
          /\ requested_size' = size
          /\ batch_size' = ClampBatchSize(size)
    /\ batch_idx' = 0
    /\ ex_result' = EmptyResult
    /\ ex_requests' = <<>>
    /\ ex_pc' = "running"
    /\ UNCHANGED <<llm, env, sideVars, pipelineVars, cacheVars>>

\* One turn of the loop over the batches (lines 105-116).
ExtractNextBatch ==
    /\ ex_pc = "running"
    /\ batch_idx < Len(Batches)
    /\ LET batch_result == extract_batch_with_retry(Batches[batch_idx + 1], 0)
       IN  /\ ex_result' = [Extend(ex_result, batch_result) EXCEPT !.requests = <<>>]
           /\ ex_requests' = ex_requests \o batch_result.requests
    /\ batch_idx' = batch_idx + 1
    /\ UNCHANGED <<llm, env, sideVars, ex_pc, ex_input, requested_size, batch_size, pipelineVars,
                   cacheVars>>

\* extract_all returns its result (line 124).
ExtractReturn ==
    /\ ex_pc = "running"
    /\ batch_idx = Len(Batches)
    /\ ex_pc' = "done"
    /\ UNCHANGED <<llm, env, sideVars, ex_input, requested_size, batch_size, batch_idx, ex_result,
                   ex_requests,
                   pipelineVars, cacheVars>>

-----------------------------------------------------------------------------
(* Aggregator and synthesizer, as far as run depends on them *)

\* skeleton.get(field, default)
Get(s, field, default) == IF field \in s.keys THEN s[field] ELSE default

RECURSIVE SumViews(_)
SumViews(skeletons) ==
    IF skeletons = <<>> THEN 0 ELSE Head(skeletons).views + SumViews(Tail(skeletons))

RECURSIVE SumLikes(_)
SumLikes(skeletons) ==
    IF skeletons = <<>> THEN 0 ELSE Head(skeletons).likes + SumLikes(Tail(skeletons))

RECURSIVE GCD(_, _)
GCD(a, b) == IF b = 0 THEN a ELSE GCD(b, a % b)

\* total / count and statistics.mean: the exact quotient, in lowest terms.
Quotient(total, count) ==
    IF total = 0 THEN [num |-> 0, den |-> 1]
    ELSE LET g == GCD(total, count) IN [num |-> total \div g, den |-> count \div g]

\* `v and v > 0`: a falsy value is dropped before the comparison, a non-empty
\* string cannot be compared with 0 (TypeError).
keeps(v)     == v.type = "number" /\ v.n > 0
compare_raises(v) == v.type = "string"

RECURSIVE SumKept(_)
SumKept(values) ==
    IF values = <<>> THEN 0
    ELSE (IF keeps(Head(values)) THEN Head(values).n ELSE 0) + SumKept(Tail(values))

\* _safe_mean: the mean of the positive values, 0.0 if there is none.
safe_mean(values) ==
    LET kept == {k \in 1..Len(values) : keeps(values[k])}
    IN  IF \E k \in 1..Len(values) : compare_raises(values[k])
        THEN [raised |-> TRUE, num |-> 0, den |-> 1]
        ELSE IF kept = {} THEN [raised |-> FALSE, num |-> 0, den |-> 1]
        ELSE [raised |-> FALSE] @@ Quotient(SumKept(values), Cardinality(kept))

Column(skeletons, field) ==
    [k \in 1..Len(skeletons) |-> Get(skeletons[k], field, Number(0))]

\* _count_values: the dict value -> number of skeletons holding it.
count_values(skeletons, field) ==
    LET value(k) == Get(skeletons[k], field, "unknown")
    IN  [v \in {value(k) : k \in 1..Len(skeletons)} |->
            Cardinality({k \in 1..Len(skeletons) : value(k) = v})]

\* _group_by_creator: the keys of the dict in insertion order ...
RECURSIVE Usernames(_)
Usernames(skeletons) ==
    IF skeletons = <<>> THEN <<>>
    ELSE LET rest == Usernames(Front(skeletons))
             username == Get(Last(skeletons), "creator_username", "unknown")
         IN  IF username \in Range(rest) THEN rest ELSE Append(rest, username)

\* Variant of group that keeps only the last run of adjacent skeletons of the
\* creator, as grouping adjacent items does.
RECURSIVE group_LastRun(_, _)
group_LastRun(skeletons, username) ==
    IF skeletons = <<>> THEN <<>>
    ELSE IF Get(Last(skeletons), "creator_username", "unknown") # username
         THEN group_LastRun(Front(skeletons), username)
         ELSE IF Len(skeletons) > 1
                 /\ Get(skeletons[Len(skeletons) - 1], "creator_username", "unknown") = username
              THEN Append(group_LastRun(Front(skeletons), username), Last(skeletons))
              ELSE <<Last(skeletons)>>

\* ... and the list under one key.
RECURSIVE group(_, _)
group(skeletons, username) ==
    IF skeletons = <<>> THEN <<>>
    ELSE IF Get(Head(skeletons), "creator_username", "unknown") = username
         THEN <<Head(skeletons)>> \o group(Tail(skeletons), username)
         ELSE group(Tail(skeletons), username)

\* The platform of a creator: that of the first skeleton of the group.
platform_of(skeletons) ==
    IF skeletons = <<>> THEN "unknown" ELSE Get(skeletons[1], "platform", "unknown")

\* _calculate_creator_stats
calculate_creator_stats(username, skeletons) ==
    LET count == Len(skeletons)
        total_views == SumViews(skeletons)
        total_likes == SumLikes(skeletons)
    IN  [username |-> username,
         platform |-> platform_of(skeletons),
         video_count |-> count,
         total_views |-> total_views,
         total_likes |-> total_likes,
         avg_views |-> IF count > 0 THEN Quotient(total_views, count) ELSE Quotient(0, 1),
         avg_likes |-> IF count > 0 THEN Quotient(total_likes, count) ELSE Quotient(0, 1),
         avg_hook_word_count |-> safe_mean(Column(skeletons, "hook_word_count")),
         avg_total_word_count |-> safe_mean(Column(skeletons, "total_word_count")),
         avg_duration_seconds |-> safe_mean(Column(skeletons, "estimated_duration_seconds")),
         hook_techniques |-> count_values(skeletons, "hook_technique"),
         value_structures |-> count_values(skeletons, "value_structure"),
         cta_types |-> count_values(skeletons, "cta_type")]

NoMean == [raised |-> FALSE, num |-> 0, den |-> 1]

\* SkeletonAggregator.aggregate: AggregatedData, or raised = TRUE when one of
\* the means raises.
aggregate(skeletons) ==
    IF skeletons = <<>>
    THEN [raised |-> FALSE, skeletons |-> <<>>, creator_stats |-> <<>>,
          total_videos |-> 0, total_views |-> 0, valid_skeletons |-> 0,
          overall_hook_techniques |-> <<>>, overall_value_structures |-> <<>>,
          overall_cta_types |-> <<>>,
          avg_hook_word_count |-> NoMean, avg_total_word_count |-> NoMean,
          avg_duration_seconds |-> NoMean]
    ELSE LET names == Usernames(skeletons)
             creator_stats == [k \in 1..Len(names) |->
                                  calculate_creator_stats(names[k], group(skeletons, names[k]))]
             avg_hook_word_count == safe_mean(Column(skeletons, "hook_word_count"))
             avg_total_word_count == safe_mean(Column(skeletons, "total_word_count"))
             avg_duration_seconds == safe_mean(Column(skeletons, "estimated_duration_seconds"))
         IN  [raised |-> \/ avg_hook_word_count.raised
                         \/ avg_total_word_count.raised
                         \/ avg_duration_seconds.raised,
              skeletons |-> skeletons,
              creator_stats |-> creator_stats,
              total_videos |-> Len(skeletons),
              total_views |-> SumViews(skeletons),
              valid_skeletons |-> Len(skeletons),
              overall_hook_techniques |-> count_values(skeletons, "hook_technique"),
              overall_value_structures |-> count_values(skeletons, "value_structure"),
              overall_cta_types |-> count_values(skeletons, "cta_type"),
              avg_hook_word_count |-> avg_hook_word_count,
              avg_total_word_count |-> avg_total_word_count,
              avg_duration_seconds |-> avg_duration_seconds]

\* LLMClient.__init__ and PatternSynthesizer.__init__: the default timeouts.
CLIENT_TIMEOUT      == 120
SYNTHESIS_TIMEOUT   == 180

\* What one llm_client.chat call of the synthesizer does: it returns a text,
\* returns None (a reply without content), or raises.
Replies == {"text", "none", "raise"}

\* One pass through get_synthesis_prompts, chat and _parse_synthesis_response
\* raises if chat raises or if .strip() meets None.
attempt_raises(reply) == reply # "text"

\* The second attempt is made after a failure, if retry_on_failure.
retries_Always(failed, retry_on_failure) == TRUE
retries(failed, retry_on_failure) == failed /\ retry_on_failure

\* PatternSynthesizer.synthesize(data, retry_on_failure) for a client whose
\* k-th chat call does replies[k]: the SynthesisResult, the chat calls made and
\* the timeout the client is left with.
synthesize_with(skeletons, replies, retry_on_failure) ==
    LET first_failed == attempt_raises(replies[1])
    IN  IF skeletons = <<>>
        THEN [raised |-> FALSE, success |-> FALSE,
              error |-> <<"No skeleton data to synthesize">>,
              calls |-> <<>>, timeout |-> CLIENT_TIMEOUT]
        ELSE IF retries(first_failed, retry_on_failure)
        THEN [raised |-> FALSE,
              success |-> ~attempt_raises(replies[2]),
              error |-> IF attempt_raises(replies[2]) THEN <<"first">> ELSE <<>>,
              calls |-> <<replies[1], replies[2]>>,
              timeout |-> IF replies[2] = "raise" THEN SYNTHESIS_TIMEOUT + 60
                          ELSE CLIENT_TIMEOUT]
        ELSE [raised |-> FALSE, success |-> ~first_failed,
              error |-> IF first_failed THEN <<"first">> ELSE <<>>,
              calls |-> <<replies[1]>>, timeout |-> CLIENT_TIMEOUT]

\* PatternSynthesizer.synthesize as run calls it, with a chat call whose first
\* chat_fails calls raise: no call without skeletons, one call, and a second
\* one after a failure.
synthesize(skeletons, chat_fails) ==
    LET synthesis == synthesize_with(skeletons,
                                     [k \in 1..2 |-> IF k <= chat_fails THEN "raise" ELSE "text"],
                                     TRUE)
    IN  [success |-> synthesis.success, calls |-> Len(synthesis.calls)]

NoSynthesis == [pc |-> "idle", skeletons |-> <<>>, replies |-> <<"text", "text">>,
                result |-> <<>>]

\* synthesizer.synthesize(result.aggregated)
Synthesize ==
    /\ syn.pc = "idle"
    /\ syn' = [syn EXCEPT !.pc = "returned",
                          !.result = <<synthesize_with(syn.skeletons, syn.replies, TRUE)>>]
    /\ UNCHANGED <<llm, env, extractorVars, pipelineVars, cacheVars, clientVars, aggVars, jobsVars, storageVars>>

-----------------------------------------------------------------------------
(* SkeletonRipperPipeline.run (pipeline.py) *)

MinValidRatioPct == 60     \* JobConfig.min_valid_ratio = 0.6

Stages == {"extractor", "aggregator", "synthesizer", "output"}

\* Variant of StatusOnEntry that enters the acquisition stage as "transcribing".
StatusOnEntry_Transcribing(stage) ==
    CASE stage = "scrape"     -> "transcribing"
      [] stage = "extract"    -> "extracting"
      [] stage = "aggregate"  -> "aggregating"
      [] stage = "synthesize" -> "synthesizing"
      [] stage = "complete"   -> "complete"

\* The value run assigns to progress.status on entering a stage.
StatusOnEntry(stage) ==
    CASE stage = "scrape"     -> "scraping"
      [] stage = "extract"    -> "extracting"
      [] stage = "aggregate"  -> "aggregating"
      [] stage = "synthesize" -> "synthesizing"
      [] stage = "complete"   -> "complete"

\* sum(1 for t in transcripts if is_valid_transcript(t.get('transcript', '')))
ValidCount(ts) == Cardinality({k \in 1..Len(ts) : is_valid_transcript(ts[k].transcript)})

\* [t for t in transcripts if is_valid_transcript(...)]
RECURSIVE ValidOnly(_)
ValidOnly(ts) ==
    IF ts = <<>> THEN <<>>
    ELSE IF is_valid_transcript(Head(ts).transcript)
         THEN <<Head(ts)>> \o ValidOnly(Tail(ts))
         ELSE ValidOnly(Tail(ts))

\* valid_ratio < config.min_valid_ratio, with valid_ratio = 0 for no transcripts
LowValidity(ts) ==
    IF ts = <<>> THEN 0 < MinValidRatioPct
    ELSE ValidCount(ts) * 100 < MinValidRatioPct * Len(ts)

\* Variant of ZeroValidRaises without the valid_count == 0 check.
ZeroValidRaises_Never(valid_count) == FALSE

\* Variant of NoSkeletonsRaises without the empty-skeletons check.
NoSkeletonsRaises_Never(skeletons) == FALSE

\* if valid_count == 0: raise ValueError("No valid transcripts to process")
ZeroValidRaises(valid_count) == valid_count = 0

\* if not result.skeletons: raise ValueError("No skeletons extracted successfully")
NoSkeletonsRaises(skeletons) == skeletons = <<>>

\* An except clause that records the error and leaves the status as it is.
Fail_KeepsStatus(msg) ==
    /\ status' = status
    /\ errors' = Append(errors, msg)
    /\ pc' = "returned"

\* The except clause of run (lines 332-338).
Fail(msg) ==
    /\ status' = "failed"
    /\ errors' = Append(errors, msg)
    /\ pc' = "returned"

\* _notify (lines 646-656): the callback is called if there is one, and an
\* exception it raises is caught and logged: none leaves _notify.
notify_raises_Uncaught(callback) == callback.supplied /\ callback.raising
notify_raises(callback) == FALSE

\* The callback after _notify was called with each status of `statuses`.
notified(callback, statuses) ==
    [callback EXCEPT
        !.seen = IF callback.supplied THEN @ \cup statuses ELSE @,
        !.caught = @ \/ (callback.supplied /\ callback.raising /\ statuses # {})]

\* Line 340: run notifies once more before it returns, whatever the status.
on_return_OnlyComplete(final) == IF final = "complete" THEN {final} ELSE {}
on_return(final) == {final}

\* The statuses notified by a step that enters a stage or leaves run.
Entered == IF pc' = "returned" THEN on_return(status') ELSE {status'}

\* A step of run that calls _notify with the statuses `statuses`; should
\* _notify raise, the except clause of run (lines 331-338) would take over.
Notifying(step, statuses) ==
    IF notify_raises(cb)
    THEN /\ Fail("callback raised")
         /\ UNCHANGED <<llm, env, sideVars, extractorVars, transcripts, creator_idx, job,
                        invoked, llm_calls, acquireVars, cb, cacheVars>>
    ELSE /\ step
         /\ cb' = notified(cb, statuses)

\* LLMClient(provider, model) is constructed, then the scraping stage is entered.
RunStart ==
    /\ pc = "start"
    /\ Notifying(/\ IF ~env.client_ok
                    THEN Fail("Missing API key")
                    ELSE /\ status' = StatusOnEntry("scrape")
                         /\ pc' = "setup"
                         /\ UNCHANGED errors
                 /\ UNCHANGED <<llm, env, sideVars, extractorVars, transcripts, creator_idx,
                                job, invoked, llm_calls, acquireVars, cacheVars>>,
                 Entered)

\* _scrape_and_transcribe up to its loop: the cookies file and the session.
RunSetup ==
    /\ pc = "setup"
    /\ Notifying(
         /\ IF ~env.setup_ok
            THEN Fail("Cookies file not found")
            ELSE /\ pc' = "acquire"
                 /\ UNCHANGED <<status, errors>>
         /\ UNCHANGED <<llm, env, sideVars, extractorVars, transcripts, creator_idx, job, invoked,
                        llm_calls, acquireVars, cacheVars>>,
         IF pc' = "returned" THEN on_return(status') ELSE {})

\* Lines 226-255: the validity threshold, the zero check, the extraction stage
\* is entered.
RunGate ==
    /\ pc = "acquire"
    /\ creator_idx = env.n_creators
    /\ Notifying(
         /\ LET warned == IF LowValidity(transcripts)
                          THEN Append(errors, "Low transcript validity")
                          ELSE errors
            IN  IF ZeroValidRaises(ValidCount(transcripts))
                THEN /\ status' = "failed"
                     /\ errors' = Append(warned, "No valid transcripts to process")
                     /\ pc' = "returned"
                ELSE /\ status' = StatusOnEntry("extract")
                     /\ errors' = warned
                     /\ pc' = "extract"
         /\ UNCHANGED <<llm, env, sideVars, extractorVars, transcripts, creator_idx, job, invoked,
                        llm_calls, acquireVars, cacheVars>>,
         {status} \cup Entered)

\* The statuses _notify is called with by one stage: by the extraction after
\* each batch and by the aggregation once it is done (line 290), each under the
\* status of the stage, then on entry of the next stage or on return.
StageNotices ==
    CASE pc = "extract"    -> {status} \cup Entered
      [] pc = "aggregate"  -> (IF pc' = "returned" THEN {} ELSE {status}) \cup Entered
      [] pc = "synthesize" -> {status}
      [] pc = "output"     -> Entered

\* Lines 257-327, one stage per step: extraction, aggregation, synthesis,
\* output and completion.
RunStage ==
    /\ pc \in {"extract", "aggregate", "synthesize", "output"}
    /\ Notifying(
         /\ CASE pc = "extract" ->
                   LET extraction_result == extract_all(ValidOnly(transcripts), DEFAULT_BATCH_SIZE)
                       noted == IF extraction_result.failed_video_ids # <<>>
                                THEN Append(errors, "Failed to extract")
                                ELSE errors
                   IN  /\ invoked' = invoked \cup {"extractor"}
                       /\ llm_calls' = llm_calls + Len(extraction_result.requests)
                       /\ job' = [job EXCEPT !.skeletons = extraction_result.successful]
                       /\ IF NoSkeletonsRaises(extraction_result.successful)
                          THEN /\ status' = "failed"
                               /\ errors' = Append(noted, "No skeletons extracted successfully")
                               /\ pc' = "returned"
                          ELSE /\ status' = StatusOnEntry("aggregate")
                               /\ errors' = noted
                               /\ pc' = "aggregate"
             [] pc = "aggregate" ->
                   LET aggregated == aggregate(job.skeletons)
                   IN  /\ invoked' = invoked \cup {"aggregator"}
                       /\ IF aggregated.raised
                          THEN Fail("'>' not supported") /\ UNCHANGED job
                          ELSE /\ job' = [job EXCEPT !.aggregated = <<aggregated>>]
                               /\ status' = StatusOnEntry("synthesize")
                               /\ pc' = "synthesize"
                               /\ UNCHANGED errors
                       /\ UNCHANGED llm_calls
             [] pc = "synthesize" ->
                   LET synthesis == synthesize(job.skeletons, env.chat_fails)
                   IN  /\ invoked' = invoked \cup {"synthesizer"}
                       /\ llm_calls' = llm_calls + synthesis.calls
                       /\ job' = [job EXCEPT !.synthesis = <<[success |-> synthesis.success]>>]
                       /\ errors' = IF ~synthesis.success
                                    THEN Append(errors, "Synthesis failed")
                                    ELSE errors
                       /\ pc' = "output"
                       /\ UNCHANGED status
             [] pc = "output" ->
                   /\ invoked' = invoked \cup {"output"}
                   /\ IF ~env.save_ok
                      THEN Fail("output write failed") /\ UNCHANGED job
                      ELSE /\ status' = StatusOnEntry("complete")
                           /\ job' = [job EXCEPT !.success = TRUE]
                           /\ pc' = "returned"
                           /\ UNCHANGED errors
                   /\ UNCHANGED llm_calls
         /\ UNCHANGED <<llm, env, sideVars, extractorVars, transcripts, creator_idx, acquireVars, cacheVars>>,
         StageNotices)

-----------------------------------------------------------------------------
(* TranscriptCache (cache.py) *)

\* Names are sequences of characters.
Lower(ch) == IF ch = "A" THEN "a" ELSE IF ch = "X" THEN "x" ELSE ch
LowerStr(str) == [k \in 1..Len(str) |-> Lower(str[k])]

\* .replace('/', '_').replace('\\', '_')
SafeStr(str) == [k \in 1..Len(str) |-> IF str[k] \in {"/", "\\"} THEN "_" ELSE str[k]]

\* _get_cache_path: "{safe_platform}_{safe_username}_{safe_video_id}.txt"
get_cache_path(platform, username, video_id) ==
    SafeStr(LowerStr(platform)) \o <<"_">> \o SafeStr(LowerStr(username)) \o <<"_">>
        \o SafeStr(video_id)

CachePlatforms == {<<"i", "g">>}
CacheUsernames == {<<"a">>, <<"A">>, <<"a", "_", "x">>}
CacheVideoIds  == {<<"y">>, <<"x", "_", "y">>}

\* The keys the cache is called with; creator a_x has the one video y.
CacheKeys ==
    {key \in CachePlatforms \X CacheUsernames \X CacheVideoIds :
        key[2] = <<"a", "_", "x">> => key[3] = <<"y">>}

\* The key whose set/get round trip is followed by cache_expect.
WatchedKey == << <<"i", "g">>, <<"a">>, <<"x", "_", "y">> >>
PathOf(key) == get_cache_path(key[1], key[2], key[3])
CachePaths == {PathOf(key) : key \in CacheKeys}

\* The texts the cache is offered: empty, blank, one word short of the minimum,
\* the minimum, and texts of the minimum length in which a garbage pattern
\* occurs about half as often as there are words.
CacheTexts ==
    {EmptyText, BlankText,
     Text(TRUE, MIN_TRANSCRIPT_WORDS - 1, 0, 0),
     Text(TRUE, MIN_TRANSCRIPT_WORDS, 0, 0),
     Text(TRUE, MIN_TRANSCRIPT_WORDS - MaxGarbage, 0, MaxGarbage)}
    \cup {Text(TRUE, MIN_TRANSCRIPT_WORDS - g, g, 0) :
             g \in (MIN_TRANSCRIPT_WORDS \div 2)..MaxGarbage}

\* Variant of _is_valid_transcript without the garbage-pattern loop.
cache_is_valid_transcript_NoGarbageCheck(t) ==
    IF ~t.chars THEN FALSE
    ELSE WordCount(t) >= 10

\* TranscriptCache._is_valid_transcript
cache_is_valid_transcript(t) ==
    IF ~t.chars THEN FALSE
    ELSE IF WordCount(t) < 10 THEN FALSE
    ELSE \A pattern \in garbage_patterns :
            ~(PatternCount(t, pattern) > WordCount(t) \div 2)

\* What Path.write_text can do: write the text; raise on opening the file, which
\* leaves the file as it was; raise after opening it, which leaves it empty.
WriteOutcomes == {"ok", "open_fails", "write_fails"}

\* Variant of write_text that opens the file for appending.
write_text_Appending(file, t) ==
    IF file = <<>> THEN <<t>>
    ELSE <<Text(TRUE, file[1].plain + t.plain, file[1].music + t.music,
                file[1].applause + t.applause)>>

\* cache_path.write_text(transcript): the file holds the text, whatever it held.
write_text(file, t) == <<t>>

\* TranscriptCache.set on the files `files`: the files afterwards and the value
\* returned.
cache_set(files, path, t, validate, write) ==
    IF validate /\ ~cache_is_valid_transcript(t)
    THEN [files |-> files, ret |-> FALSE]
    ELSE CASE write = "ok" ->
                [files |-> [files EXCEPT ![path] = write_text(files[path], t)], ret |-> TRUE]
           [] write = "open_fails" ->
                [files |-> files, ret |-> FALSE]
           [] write = "write_fails" ->
                [files |-> [files EXCEPT ![path] = <<EmptyText>>], ret |-> FALSE]

\* TranscriptCache.get on the files `files`: <<text>>, or <<>> for None (no file,
\* or a file holding only white space).
cache_get(files, path) ==
    IF files[path] # <<>> /\ StripNonEmpty(files[path][1]) THEN files[path] ELSE <<>>

NoOp == [op |-> "none", path |-> <<>>, text |-> EmptyText, validate |-> TRUE,
         write |-> "ok", ret |-> FALSE, got |-> <<>>, again |-> FALSE]

\* set(platform, username, video_id, transcript, validate); again = the call
\* repeats the previous call, which was a set that returned true.
CacheSet ==
    \E key \in CacheKeys, t \in CacheTexts, validate \in BOOLEAN, write \in WriteOutcomes :
       LET path == PathOf(key)
           done == cache_set(cache_files, path, t, validate, write)
           call == [NoOp EXCEPT !.op = "set", !.path = path, !.text = t,
                                !.validate = validate, !.write = write]
       IN  /\ cache_files' = done.files
           /\ cache_ret' = [call EXCEPT
                               !.ret = done.ret,
                               !.again = /\ cache_ret.op = "set" /\ cache_ret.ret
                                         /\ cache_ret.path = path /\ cache_ret.text = t
                                         /\ cache_ret.validate = validate]
           /\ cache_bypass' = (cache_bypass \/ (done.ret /\ ~validate))
           /\ cache_expect' = IF key # WatchedKey THEN cache_expect
                              ELSE IF done.ret /\ validate THEN <<t>>
                              ELSE <<>>
           /\ UNCHANGED <<llm, env, sideVars, extractorVars, pipelineVars>>

\* exists(platform, username, video_id): the file is there and is not empty.
cache_exists(path) == cache_files[path] # <<>> /\ cache_files[path][1].chars

\* get(platform, username, video_id): the text, or None for no file and for a
\* file holding only white space.
CacheGet ==
    \E key \in CacheKeys :
       LET path == PathOf(key)
       IN  /\ cache_ret' = [NoOp EXCEPT !.op = "get", !.path = path,
                               !.got = cache_get(cache_files, path)]
           /\ UNCHANGED <<cache_files, cache_bypass, cache_expect, llm, env, sideVars,
                          extractorVars, pipelineVars>>

\* delete(platform, username, video_id)
CacheDelete ==
    \E key \in CacheKeys :
       LET path == PathOf(key)
       IN  /\ cache_ret' = [NoOp EXCEPT !.op = "delete", !.path = path,
                               !.ret = (cache_files[path] # <<>>)]
           /\ cache_files' = [cache_files EXCEPT ![path] = <<>>]
           /\ cache_expect' = IF key = WatchedKey THEN <<>> ELSE cache_expect
           /\ UNCHANGED <<cache_bypass, llm, env, sideVars, extractorVars, pipelineVars>>

\* clear_all()
CacheClearAll ==
    /\ cache_ret' = [NoOp EXCEPT !.op = "clear_all"]
    /\ cache_files' = [path \in DOMAIN cache_files |-> <<>>]
    /\ cache_expect' = <<>>
    /\ UNCHANGED <<cache_bypass, llm, env, sideVars, extractorVars, pipelineVars>>

-----------------------------------------------------------------------------
(* SkeletonRipperPipeline._scrape_and_transcribe (pipeline.py) *)

\* config.platform and the user names, as names of one character each.
Platform == <<"instagram">>
UserChars(c) == <<CreatorName(c)>>

\* The shortcodes of the reels of creator c, and the creator of a shortcode.
VideoId(c, j) == (c - 1) * MaxReels + j
CreatorOf(i) == ((i - 1) \div MaxReels) + 1
RankOf(i) == ((i - 1) % MaxReels) + 1

IdChars(i) == <<ToString(i)>>
ParseId(chars) == CHOOSE i \in ItemIds : ToString(i) = chars

\* The cache file of video i of creator c.
ReelPath(c, i) == get_cache_path(Platform, UserChars(c), IdChars(i))

JobPaths == {ReelPath(c, VideoId(c, j)) : c \in 1..MaxCreators, j \in 1..MaxReels}

\* A reel dict of the listing: the view and like counts of this run.
Reel(i) == [shortcode |-> i, views |-> 100 * i, likes |-> 10 * i]

\* The dict the loop over the reels appends (lines 474-484 and 557-567).
WalkRecord(reel, c, txt, cached) ==
    [video_id |-> reel.shortcode, username |-> CreatorName(c), platform |-> "instagram",
     views |-> reel.views, likes |-> reel.likes, transcript |-> txt, from_cache |-> cached]

\* Variant of ranks_before that sorts by ascending views.
ranks_before_Ascending(a, b) == a.views <= b.views

\* sorted(..., key=views, reverse=True) leaves a before b when a was listed
\* before b and has at least the views of b.
ranks_before(a, b) == a.views >= b.views

\* x placed behind every reel that ranks before it.
RECURSIVE InsertReel(_, _)
InsertReel(x, sorted) ==
    IF sorted = <<>> THEN <<x>>
    ELSE IF ranks_before(Head(sorted), x) THEN <<Head(sorted)>> \o InsertReel(x, Tail(sorted))
    ELSE <<x>> \o sorted

\* reels_sorted = sorted(reels, key=lambda x: x.get('views', 0), reverse=True)
RECURSIVE sorted_reels(_)
sorted_reels(reels) ==
    IF reels = <<>> THEN <<>>
    ELSE InsertReel(reels[Len(reels)], sorted_reels(SubSeq(reels, 1, Len(reels) - 1)))

\* What download_video and the transcription do with one reel.
FailFates == {"dl_false", "dl_raise", "tr_raise", "tr_none", "tr_short"}
PassFates == {"tr_good", "tr_garbage"}

ShortText   == Text(TRUE, MIN_TRANSCRIPT_WORDS - 1, 0, 0)
GarbageText == Text(TRUE, MIN_TRANSCRIPT_WORDS - MaxGarbage, MaxGarbage, 0)

\* download_video(...): "true", "false" (also: no file was written), "raise".
download_video(i) ==
    CASE feed.fate[i] = "dl_false" -> "false"
      [] feed.fate[i] = "dl_raise" -> "raise"
      [] OTHER                     -> "true"

\* transcribe_video / transcribe_video_openai: raises, or returns None (<<>>),
\* or returns a text.
transcribe_video(i) ==
    CASE feed.fate[i] = "tr_raise"   -> [raised |-> TRUE,  text |-> <<>>]
      [] feed.fate[i] = "tr_none"    -> [raised |-> FALSE, text |-> <<>>]
      [] feed.fate[i] = "tr_short"   -> [raised |-> FALSE, text |-> <<ShortText>>]
      [] feed.fate[i] = "tr_garbage" -> [raised |-> FALSE, text |-> <<GarbageText>>]
      [] OTHER                       -> [raised |-> FALSE, text |-> <<GoodText>>]

\* Variant of download_skips in which a raising download does not end the turn.
download_skips_OnlyFalse(outcome) == outcome = "false"

\* The turn of the loop ends after the download (lines 507-517): download_video
\* returned false, or wrote no file, or raised.
download_skips(outcome) == outcome # "true"

HasPrefix(str, pre) == Len(str) >= Len(pre) /\ SubSeq(str, 1, Len(pre)) = pre

\* cache_dir.glob(f"{platform.lower()}_{username.lower()}_*.txt"): the files.
glob(files, platform, username) ==
    {path \in DOMAIN files :
        /\ files[path] # <<>>
        /\ HasPrefix(path, LowerStr(platform) \o <<"_">> \o LowerStr(username) \o <<"_">>)}

\* The orders in which a directory listing can give the files S.
Orders(S) ==
    {order \in [1..Cardinality(S) -> S] : \A x \in S : \E k \in 1..Cardinality(S) : order[k] = x}

\* parts = filename.split('_'); video_id = parts[-1] if len(parts) >= 3 else
\* filename: what follows the last underscore of the file name.
stem_video_id(stem) ==
    LET underscores == {k \in 1..Len(stem) : stem[k] = "_"}
    IN  IF Cardinality(underscores) + 1 >= 3
        THEN SubSeq(stem, Max(CHOOSE k \in underscores : \A j \in underscores : j <= k, 0) + 1,
                    Len(stem))
        ELSE stem

\* The loop of _get_cached_transcripts over the directory listing `listed`
\* (lines 606-626): the file, the id read off its name and the text of each of
\* the first `count` files that holds a valid transcript.
cached_records(files, username, listed, count) ==
    LET firsts == SubSeq(listed, 1, Min(count, Len(listed)))
        Valid(path) == is_valid_transcript(files[path][1])
        usable == SelectSeq(firsts, Valid)
    IN  [k \in 1..Len(usable) |->
            [video_id |-> stem_video_id(usable[k]), username |-> username,
             transcript |-> files[usable[k]][1]]]

\* _get_cached_transcripts, for the directory listing `listed`.
get_cached_transcripts(files, c, listed, count) ==
    LET cached == cached_records(files, UserChars(c), listed, count)
    IN  [k \in 1..Len(cached) |->
            [video_id |-> ParseId(cached[k].video_id[1]),
             username |-> CreatorName(c), platform |-> "instagram",
             views |-> 0, likes |-> 0,
             transcript |-> cached[k].transcript, from_cache |-> TRUE]]

\* Variant of enough that stops one transcript later.
enough_OneMore(valid_count, videos_per_creator) == valid_count > videos_per_creator

\* if valid_count >= config.videos_per_creator: break
enough(valid_count, videos_per_creator) == valid_count >= videos_per_creator

NoWalk == [phase |-> "idle", how |-> "none", creator |-> 0, reels |-> <<>>, idx |-> 0,
           valid_count |-> 0, attempted |-> 0, last |-> "none",
           cache0 |-> <<>>, t0 |-> 0, e0 |-> 0, d0 |-> 0, r0 |-> 0]

NoCalls == [downloads |-> <<>>, transcribes |-> <<>>, attempted |-> 0]

\* The loop over config.usernames reaches a creator (lines 397-457): the cache
\* holds enough transcripts, or the listing fails or is empty, or the reels are
\* sorted and the loop over them is entered.
AcquireBegin ==
    /\ pc = "acquire"
    /\ acq.phase # "walk"
    /\ creator_idx < env.n_creators
    /\ Notifying(
         /\ LET c == creator_idx + 1
                begun == [NoWalk EXCEPT !.creator = c, !.cache0 = cache_files,
                                        !.t0 = Len(transcripts), !.e0 = Len(errors),
                                        !.d0 = Len(calls.downloads),
                                        !.r0 = Len(calls.transcribes)]
                fetched == feed.listing[c]
            IN  \E listed \in Orders(glob(cache_files, Platform, UserChars(c))) :
                   LET cached_transcripts ==
                           get_cached_transcripts(cache_files, c, listed, env.target)
                   IN  IF cached_transcripts # <<>> /\ Len(cached_transcripts) >= env.target
                       THEN /\ transcripts' = transcripts \o SubSeq(cached_transcripts, 1, env.target)
                            /\ acq' = [begun EXCEPT !.phase = "done", !.how = "cache"]
                            /\ creator_idx' = creator_idx + 1
                            /\ UNCHANGED errors
                       ELSE IF fetched.kind # "reels" \/ fetched.reels = <<>>
                       THEN /\ errors' = Append(errors,
                                            CASE fetched.kind = "error" -> "fetch error"
                                              [] fetched.kind = "raise" -> "fetch raised"
                                              [] OTHER                  -> "No reels found")
                            /\ acq' = [begun EXCEPT !.phase = "done", !.how = "error"]
                            /\ creator_idx' = creator_idx + 1
                            /\ UNCHANGED transcripts
                       ELSE /\ acq' = [begun EXCEPT !.phase = "walk", !.how = "walk",
                                                    !.reels = sorted_reels(fetched.reels)]
                            /\ UNCHANGED <<transcripts, errors, creator_idx>>
         /\ UNCHANGED <<llm, env, sideVars, extractorVars, pc, status, job, invoked, llm_calls,
                        feed, calls, cacheVars>>,
         {status})

\* One turn of the loop over reels_sorted (lines 460-577).
AcquireCandidate ==
    /\ pc = "acquire"
    /\ acq.phase = "walk"
    /\ acq.idx < Len(acq.reels)
    /\ ~enough(acq.valid_count, env.target)
    /\ Notifying(
         /\ LET c == acq.creator
                reel == acq.reels[acq.idx + 1]
                video_id == reel.shortcode
                path == ReelPath(c, video_id)
                cached == cache_get(cache_files, path)
                turn == [acq EXCEPT !.idx = @ + 1, !.attempted = @ + 1]
                tried == [calls EXCEPT !.attempted = @ + 1]
                downloaded == [tried EXCEPT !.downloads = Append(@, video_id)]
                result == transcribe_video(video_id)
                transcript_text == IF result.raised THEN <<>> ELSE result.text
            IN  IF cached # <<>> /\ is_valid_transcript(cached[1])
                THEN /\ transcripts' = Append(transcripts, WalkRecord(reel, c, cached[1], TRUE))
                     /\ acq' = [turn EXCEPT !.valid_count = @ + 1, !.last = "cache hit"]
                     /\ calls' = tried
                     /\ UNCHANGED cache_files
                ELSE IF download_skips(download_video(video_id))
                THEN /\ acq' = [turn EXCEPT !.last = IF download_video(video_id) = "raise"
                                                     THEN "download raised"
                                                     ELSE "download failed"]
                     /\ calls' = downloaded
                     /\ UNCHANGED <<transcripts, cache_files>>
                ELSE IF ~feed.method
                THEN /\ acq' = [turn EXCEPT !.last = "no method"]
                     /\ calls' = downloaded
                     /\ UNCHANGED <<transcripts, cache_files>>
                ELSE /\ calls' = [downloaded EXCEPT !.transcribes = Append(@, video_id)]
                     /\ IF /\ transcript_text # <<>> /\ transcript_text[1].chars
                           /\ is_valid_transcript(transcript_text[1])
                        THEN /\ cache_files' =
                                   cache_set(cache_files, path, transcript_text[1], TRUE,
                                             feed.disk).files
                             /\ transcripts' = Append(transcripts,
                                                   WalkRecord(reel, c, transcript_text[1], FALSE))
                             /\ acq' = [turn EXCEPT !.valid_count = @ + 1, !.last = "transcribed"]
                        ELSE /\ acq' = [turn EXCEPT !.last = IF result.raised
                                                             THEN "transcription raised"
                                                             ELSE "invalid transcript"]
                             /\ UNCHANGED <<transcripts, cache_files>>
         /\ UNCHANGED <<llm, env, sideVars, extractorVars, pc, status, errors, creator_idx, job, invoked,
                        llm_calls, feed, cache_ret, cache_bypass, cache_expect>>,
         {status})

\* The loop over the reels is left (lines 461-462 and 579-587).
AcquireEnd ==
    /\ pc = "acquire"
    /\ acq.phase = "walk"
    /\ acq.idx = Len(acq.reels) \/ enough(acq.valid_count, env.target)
    /\ errors' = IF acq.valid_count < env.target
                 THEN Append(errors, "Only k/n valid transcripts")
                 ELSE errors
    /\ acq' = [acq EXCEPT !.phase = "done"]
    /\ creator_idx' = creator_idx + 1
    /\ UNCHANGED <<llm, env, sideVars, extractorVars, pc, status, transcripts, job, invoked,
                   llm_calls, feed, calls, cb, cacheVars>>

-----------------------------------------------------------------------------
(* LLMClient.chat (llm_client.py) *)

RETRYABLE_STATUS_CODES == {429, 500, 502, 503, 504}

\* The error statuses the backend answers with; 0 stands for an HTTPError that
\* carries no response.
HTTPStatuses == {0, 400, 429, 500, 501, 503}

\* What one request does: it returns the text, or raise_for_status raises an
\* HTTPError, or the request raises Timeout or ConnectionError, or something
\* else is raised (a response without the expected fields, for example).
Outcomes ==
    {[kind |-> "ok", status |-> 200]}
      \cup {[kind |-> "http", status |-> code] : code \in HTTPStatuses}
      \cup {[kind |-> k, status |-> 0] : k \in {"timeout", "connection", "unexpected"}}

DEFAULT_BASE_DELAY == 1
DEFAULT_MAX_DELAY  == 30

RECURSIVE Pow2(_)
Pow2(n) == IF n = 0 THEN 1 ELSE 2 * Pow2(n - 1)

\* delay = min(self.base_delay * (2 ** attempt), self.max_delay)
backoff(base_delay, max_delay, attempt) == Min(base_delay * Pow2(attempt), max_delay)

\* Variant of may_retry that retries while attempt <= max_retries.
may_retry_OneMore(attempt, max_retries) == attempt <= max_retries

\* attempt < self.max_retries
may_retry(attempt, max_retries) == attempt < max_retries

\* Variant of retries_error that retries every error.
retries_error_All(outcome, attempt, max_retries) == may_retry(attempt, max_retries)

\* The except clauses of chat: the error is followed by a sleep and another
\* attempt.
retries_error(outcome, attempt, max_retries) ==
    CASE outcome.kind = "http" ->
            outcome.status \in RETRYABLE_STATUS_CODES /\ may_retry(attempt, max_retries)
      [] outcome.kind \in {"timeout", "connection"} -> may_retry(attempt, max_retries)
      [] OTHER -> FALSE

NoChat == [pc |-> "idle", max_retries |-> 0, max_delay |-> DEFAULT_MAX_DELAY,
           attempt |-> 0, tried |-> <<>>, sleeps |-> <<>>, result |-> <<>>]

\* chat(...) is entered on a client with the given max_retries and max_delay.
ChatCall ==
    /\ chat.pc = "idle"
    /\ \E max_retries \in 0..MaxRetries, max_delay \in {2, DEFAULT_MAX_DELAY} :
          chat' = [NoChat EXCEPT !.pc = "loop", !.max_retries = max_retries,
                                 !.max_delay = max_delay]
    /\ UNCHANGED <<llm, env, extractorVars, pipelineVars, cacheVars, net, aggVars, synVars, jobsVars, storageVars>>

\* One turn of the loop over range(self.max_retries + 1) (lines 198-265): the
\* request, then the return, the raise, or the sleep before the next turn.
ChatAttempt ==
    /\ chat.pc = "loop"
    /\ chat.attempt < chat.max_retries + 1
    /\ LET outcome == net[chat.attempt + 1]
           made == [chat EXCEPT !.tried = Append(@, outcome)]
       IN  IF outcome.kind = "ok"
           THEN chat' = [made EXCEPT !.pc = "returned", !.result = <<outcome>>]
           ELSE IF retries_error(outcome, chat.attempt, chat.max_retries)
           THEN chat' = [made EXCEPT
                            !.sleeps = Append(@, backoff(DEFAULT_BASE_DELAY, chat.max_delay,
                                                         chat.attempt)),
                            !.attempt = @ + 1,
                            \* the loop is exhausted: raise last_exception (line 265)
                            !.pc = IF chat.attempt + 1 < chat.max_retries + 1
                                   THEN "loop" ELSE "raised",
                            !.result = IF chat.attempt + 1 < chat.max_retries + 1
                                       THEN <<>> ELSE <<outcome>>]
           ELSE chat' = [made EXCEPT !.pc = "raised", !.result = <<outcome>>]
    /\ UNCHANGED <<llm, env, extractorVars, pipelineVars, cacheVars, net, aggVars, synVars, jobsVars, storageVars>>

-----------------------------------------------------------------------------
(* One aggregate call and a second one on a reordered list (aggregator.py) *)

Platforms == {"instagram", "tiktok"}

\* What the LLM returned for one video, as far as aggregate reads it: the hook
\* technique, and hook_word_count (absent, or some JSON value).
AggShapes ==
    {[hook_technique |-> "story",    counted |-> TRUE,  hook_word_count |-> Number(3)],
     [hook_technique |-> "question", counted |-> TRUE,  hook_word_count |-> Number(6)],
     [hook_technique |-> "story",    counted |-> TRUE,  hook_word_count |-> Number(0)],
     [hook_technique |-> "story",    counted |-> FALSE, hook_word_count |-> Null],
     [hook_technique |-> "story",    counted |-> TRUE,  hook_word_count |-> JsonString]}

\* The skeleton of video i of creator c: a dict that passes validate_skeleton,
\* with the metadata of its transcript (extractor.py lines 171-188).
AggSkeleton(i, c, platform, shape) ==
    Enrich([GoodObj(i) EXCEPT
               !.keys = IF shape.counted THEN @ \cup {"hook_word_count"} ELSE @,
               !.hook_technique = shape.hook_technique,
               !.hook_word_count = shape.hook_word_count],
           [TranscriptDict(i, c, GoodText, FALSE) EXCEPT !.platform = platform])

Reorderings(n) ==
    {order \in [1..n -> 1..n] : \A x \in 1..n : \E k \in 1..n : order[k] = x}

Reordered(skeletons, order) == [k \in 1..Len(skeletons) |-> skeletons[order[k]]]

NoAggregate == [pc |-> "idle", input |-> <<>>, order |-> <<>>, out |-> <<>>, again |-> <<>>]

\* aggregator.aggregate(skeletons)
AggregateCall ==
    /\ agg.pc = "idle"
    /\ agg' = [agg EXCEPT !.pc = "aggregated", !.out = <<aggregate(agg.input)>>]
    /\ UNCHANGED <<llm, env, extractorVars, pipelineVars, cacheVars, clientVars, synVars, jobsVars, storageVars>>

\* aggregator.aggregate on a permutation of the same list
AggregateAgain ==
    /\ agg.pc = "aggregated"
    /\ \E order \in Reorderings(Len(agg.input)) :
          agg' = [agg EXCEPT !.pc = "compared", !.order = order,
                             !.again = <<aggregate(Reordered(agg.input, order))>>]
    /\ UNCHANGED <<llm, env, extractorVars, pipelineVars, cacheVars, clientVars, synVars, jobsVars, storageVars>>

-----------------------------------------------------------------------------
(* Two jobs in the loop over their reels at the same time (pipeline.py lines
   460-577): each is one sequential worker, and a step is what a worker does
   between two accesses to the files the jobs share. *)

Jobs == {1, 2}

\* temp_dir / f"{username}_{video_id}.mp4"
video_path(c, video_id) == <<CreatorName(c), video_id>>

\* A text of which the last word is not written yet.
PartialText(t) == Text(t.chars, t.plain - 1, t.music, t.applause)

NoWorker == [pc |-> "idle", creator |-> 1, target |-> 1, reels |-> <<>>, idx |-> 0,
             valid_count |-> 0, got |-> <<>>, text |-> <<>>, flushed |-> FALSE]

TurnOver(worker) == [worker EXCEPT !.pc = "check", !.idx = @ + 1, !.text = <<>>,
                                   !.flushed = FALSE]

\* Lines 460-490: the loop ends, or the cache is asked for the next reel.
WorkerCheck(w) ==
    LET worker == workers[w]
    IN  /\ worker.pc = "check"
        /\ IF enough(worker.valid_count, worker.target) \/ worker.idx = Len(worker.reels)
           THEN workers' = [workers EXCEPT ![w].pc = "done"]
           ELSE LET reel == worker.reels[worker.idx + 1]
                    cached == cache_get(cache_files, ReelPath(worker.creator, reel.shortcode))
                IN  IF cached # <<>> /\ is_valid_transcript(cached[1])
                    THEN workers' = [workers EXCEPT ![w] =
                            [TurnOver(worker) EXCEPT
                                !.valid_count = @ + 1,
                                !.got = Append(@, WalkRecord(reel, worker.creator,
                                                             cached[1], TRUE))]]
                    ELSE workers' = [workers EXCEPT ![w].pc = "download"]
        /\ UNCHANGED <<llm, env, extractorVars, pipelineVars, cacheVars, clientVars, aggVars,
                       synVars, temp, storageVars>>

\* Lines 497-517: download_video writes the file video_path, and the turn goes
\* on if it returned true and the file exists.
WorkerDownload(w) ==
    LET worker == workers[w]
        video_id == worker.reels[worker.idx + 1].shortcode
    IN  /\ worker.pc = "download"
        /\ IF download_skips(download_video(video_id))
           THEN /\ workers' = [workers EXCEPT ![w] = TurnOver(worker)]
                /\ UNCHANGED temp
           ELSE /\ temp' = temp \cup {video_path(worker.creator, video_id)}
                /\ workers' = [workers EXCEPT ![w].pc = "transcribe"]
        /\ UNCHANGED <<llm, env, extractorVars, pipelineVars, cacheVars, clientVars, aggVars,
                       synVars, storageVars>>

\* Lines 524-545: the transcription opens the file video_path; without the
\* file there is no text.
WorkerTranscribe(w) ==
    LET worker == workers[w]
        video_id == worker.reels[worker.idx + 1].shortcode
        result == transcribe_video(video_id)
    IN  /\ worker.pc = "transcribe"
        /\ workers' = [workers EXCEPT
                          ![w].pc = "cleanup",
                          ![w].text = IF video_path(worker.creator, video_id) \notin temp
                                         \/ result.raised
                                      THEN <<>>
                                      ELSE result.text]
        /\ UNCHANGED <<llm, env, extractorVars, pipelineVars, cacheVars, clientVars, aggVars,
                       synVars, temp, storageVars>>

\* Lines 547-554: the file video_path is removed if it exists, and the text
\* is judged.
WorkerCleanup(w) ==
    LET worker == workers[w]
        video_id == worker.reels[worker.idx + 1].shortcode
    IN  /\ worker.pc = "cleanup"
        /\ temp' = temp \ {video_path(worker.creator, video_id)}
        /\ IF /\ worker.text # <<>> /\ worker.text[1].chars
              /\ is_valid_transcript(worker.text[1])
           THEN workers' = [workers EXCEPT ![w].pc = "store"]
           ELSE workers' = [workers EXCEPT ![w] = TurnOver(worker)]
        /\ UNCHANGED <<llm, env, extractorVars, pipelineVars, cacheVars, clientVars, aggVars,
                       synVars, storageVars>>

\* Lines 555-577: cache.set, then the record is appended. write_text opens the
\* file, which empties it, and the text reaches the file in one piece or in
\* two; a text the cache holds invalid is not written.
WorkerStore(w) ==
    LET worker == workers[w]
        reel == worker.reels[worker.idx + 1]
        path == ReelPath(worker.creator, reel.shortcode)
        stored == [TurnOver(worker) EXCEPT
                      !.valid_count = @ + 1,
                      !.got = Append(@, WalkRecord(reel, worker.creator, worker.text[1], FALSE))]
    IN  /\ worker.pc \in {"store", "write"}
        /\ IF worker.pc = "store"
           THEN IF ~cache_is_valid_transcript(worker.text[1])
                THEN /\ workers' = [workers EXCEPT ![w] = stored]
                     /\ UNCHANGED cache_files
                ELSE /\ workers' = [workers EXCEPT ![w].pc = "write"]
                     /\ cache_files' = [cache_files EXCEPT ![path] = <<EmptyText>>]
           ELSE \/ /\ ~worker.flushed
                   /\ workers' = [workers EXCEPT ![w].flushed = TRUE]
                   /\ cache_files' = [cache_files EXCEPT
                                         ![path] = <<PartialText(worker.text[1])>>]
                \/ /\ workers' = [workers EXCEPT ![w] = stored]
                   /\ cache_files' = cache_set(cache_files, path, worker.text[1], TRUE,
                                               "ok").files
        /\ UNCHANGED <<llm, env, extractorVars, pipelineVars, cache_ret, cache_bypass,
                       cache_expect, clientVars, aggVars, synVars, temp, storageVars>>

-----------------------------------------------------------------------------
(* Assets, collections and their junction table (storage/models.py,
   storage/database.py). An id stands for a uuid; assets get their ids in the
   order of their created_at. *)

AssetIds      == 1..MaxAssets
CollectionIds == 1..MaxCollections

\* asset_collections: the number of rows with each (asset_id, collection_id).
NoRows == [key \in AssetIds \X CollectionIds |-> 0]

EmptyDb == [assets |-> {}, collections |-> {}, asset_collections |-> NoRows]

NoDbOp == [op |-> "none", asset |-> 0, collection |-> 0, raised |-> FALSE, again |-> FALSE]

\* A plain INSERT into a table without the primary key.
insert_Plain(rows, a, c) == [rows EXCEPT ![<<a, c>>] = @ + 1]

\* INSERT OR IGNORE under PRIMARY KEY (asset_id, collection_id).
insert_or_ignore(rows, a, c) ==
    IF rows[<<a, c>>] > 0 THEN rows ELSE [rows EXCEPT ![<<a, c>>] = 1]

\* DELETE FROM asset_collections WHERE asset_id = ? AND collection_id = ?
delete_rows(rows, a, c) == [rows EXCEPT ![<<a, c>>] = 0]

\* ON DELETE CASCADE, with PRAGMA foreign_keys = ON.
cascade(rows, column, id) ==
    [key \in AssetIds \X CollectionIds |-> IF key[column] = id THEN 0 ELSE rows[key]]

RECURSIVE Descending(_)
Descending(S) ==
    IF S = {} THEN <<>>
    ELSE LET top == CHOOSE x \in S : \A y \in S : y <= x
         IN  <<top>> \o Descending(S \ {top})

\* Collection.get_assets(limit, offset): Asset.list(collection_id = c), that is
\* SELECT DISTINCT a.* ... JOIN asset_collections ... ORDER BY a.created_at
\* DESC LIMIT ? OFFSET ?
get_assets(c, limit, offset) ==
    LET joined == Descending({a \in db.assets : db.asset_collections[<<a, c>>] > 0})
    IN  SubSeq(joined, offset + 1, Min(offset + limit, Len(joined)))

\* Asset.get_collections: the collections joined to the rows of the asset.
get_collections(a) == {c \in db.collections : db.asset_collections[<<a, c>>] > 0}

RECURSIVE SumRows(_, _)
SumRows(S, c) ==
    IF S = {} THEN 0
    ELSE LET a == CHOOSE x \in S : TRUE
         IN  db.asset_collections[<<a, c>>] + SumRows(S \ {a}, c)

\* Collection.asset_count: SELECT COUNT(*) FROM asset_collections WHERE
\* collection_id = ?
asset_count(c) == SumRows(AssetIds, c)

\* Asset.create
AssetCreate ==
    /\ \E id \in AssetIds :
          /\ \A a \in db.assets : a < id
          /\ db' = [db EXCEPT !.assets = @ \cup {id}]
          /\ db_ret' = [NoDbOp EXCEPT !.op = "create_asset", !.asset = id]
    /\ UNCHANGED <<llm, env, extractorVars, pipelineVars, cacheVars, clientVars, aggVars,
                   synVars, jobsVars>>

\* Collection.create
CollectionCreate ==
    /\ \E id \in CollectionIds \ db.collections :
          /\ db' = [db EXCEPT !.collections = @ \cup {id}]
          /\ db_ret' = [NoDbOp EXCEPT !.op = "create_collection", !.collection = id]
    /\ UNCHANGED <<llm, env, extractorVars, pipelineVars, cacheVars, clientVars, aggVars,
                   synVars, jobsVars>>

\* asset.add_to_collection(collection_id), on an Asset object whose row may be
\* gone: a row that refers to no asset or to no collection violates a foreign
\* key, the INSERT raises and the transaction is rolled back.
AddToCollection ==
    /\ \E a \in AssetIds, c \in CollectionIds :
          IF a \in db.assets /\ c \in db.collections
          THEN /\ db' = [db EXCEPT !.asset_collections = insert_or_ignore(@, a, c)]
               /\ db_ret' = [NoDbOp EXCEPT !.op = "add", !.asset = a, !.collection = c,
                                           !.again = db.asset_collections[<<a, c>>] > 0]
          ELSE /\ db_ret' = [NoDbOp EXCEPT !.op = "add", !.asset = a, !.collection = c,
                                           !.raised = TRUE]
               /\ UNCHANGED db
    /\ UNCHANGED <<llm, env, extractorVars, pipelineVars, cacheVars, clientVars, aggVars,
                   synVars, jobsVars>>

\* asset.remove_from_collection(collection_id)
RemoveFromCollection ==
    /\ \E a \in AssetIds, c \in CollectionIds :
          /\ db' = [db EXCEPT !.asset_collections = delete_rows(@, a, c)]
          /\ db_ret' = [NoDbOp EXCEPT !.op = "remove", !.asset = a, !.collection = c,
                                      !.again = db.asset_collections[<<a, c>>] = 0]
    /\ UNCHANGED <<llm, env, extractorVars, pipelineVars, cacheVars, clientVars, aggVars,
                   synVars, jobsVars>>

\* Asset.delete
AssetDelete ==
    /\ \E a \in db.assets :
          /\ db' = [db EXCEPT !.assets = @ \ {a},
                              !.asset_collections = cascade(@, 1, a)]
          /\ db_ret' = [NoDbOp EXCEPT !.op = "delete_asset", !.asset = a]
    /\ UNCHANGED <<llm, env, extractorVars, pipelineVars, cacheVars, clientVars, aggVars,
                   synVars, jobsVars>>

\* Collection.delete
CollectionDelete ==
    /\ \E c \in db.collections :
          /\ db' = [db EXCEPT !.collections = @ \ {c},
                              !.asset_collections = cascade(@, 2, c)]
          /\ db_ret' = [NoDbOp EXCEPT !.op = "delete_collection", !.collection = c]
    /\ UNCHANGED <<llm, env, extractorVars, pipelineVars, cacheVars, clientVars, aggVars,
                   synVars, jobsVars>>

-----------------------------------------------------------------------------
(* Specifications *)

EnvIdle == [client_ok |-> TRUE, setup_ok |-> TRUE, chat_fails |-> 0, save_ok |-> TRUE,
            n_creators |-> 1, target |-> 1]

Envs == [client_ok : BOOLEAN, setup_ok : BOOLEAN, chat_fails : 0..2, save_ok : BOOLEAN,
         n_creators : 1..MaxCreators, target : 1..MaxTarget]

NewJob == [success |-> FALSE, skeletons |-> <<>>, aggregated |-> <<>>, synthesis |-> <<>>]

InitExtractor ==
    /\ ex_pc = "idle"
    /\ ex_input = <<>>
    /\ requested_size = DEFAULT_BATCH_SIZE
    /\ batch_size = ClampBatchSize(DEFAULT_BATCH_SIZE)
    /\ batch_idx = 0
    /\ ex_result = EmptyResult
    /\ ex_requests = <<>>

\* run is called with on_progress = None.
NoCallback == [supplied |-> FALSE, raising |-> FALSE, seen |-> {}, caught |-> FALSE]
\* run is called with a callback that returns.
QuietCallback == [NoCallback EXCEPT !.supplied = TRUE]
\* run is called with a callback that raises whenever it is called.
RaisingCallback == [QuietCallback EXCEPT !.raising = TRUE]

InitPipeline ==
    /\ pc = "start"
    /\ status = "pending"
    /\ errors = <<>>
    /\ transcripts = <<>>
    /\ creator_idx = 0
    /\ job = NewJob
    /\ invoked = {}
    /\ llm_calls = 0

\* No chat call is under way; the backend answers every request.
InitClient ==
    /\ net = [k \in 1..(MaxRetries + 1) |-> [kind |-> "ok", status |-> 200]]
    /\ chat = NoChat

InitAggregator ==
    /\ agg = NoAggregate

InitSynthesizer ==
    /\ syn = NoSynthesis

InitJobs ==
    /\ workers = [w \in Jobs |-> NoWorker]
    /\ temp = {}

InitStorage ==
    /\ db = EmptyDb
    /\ db_ret = NoDbOp

\* The components left alone by the specification of component `studied`.
InitSide(studied) ==
    /\ IF studied = "client" THEN TRUE ELSE InitClient
    /\ IF studied = "aggregator" THEN TRUE ELSE InitAggregator
    /\ IF studied = "synthesizer" THEN TRUE ELSE InitSynthesizer
    /\ IF studied = "jobs" THEN TRUE ELSE InitJobs
    /\ IF studied = "storage" THEN TRUE ELSE InitStorage

InitCache ==
    /\ cache_ret = NoOp
    /\ cache_bypass = FALSE
    /\ cache_expect = <<>>

\* What one creator's reels and cache files are when the job starts: the
\* listing call fails, raises or lists the first n reels of the creator, by
\* ascending or by descending views; the reels in `failing` meet the failure
\* `fail`, every other reel gives the transcription `pass`; the cache holds a
\* good transcript of the reels in `held` (the first or the last few reels, or
\* any reels but the first when the file of the first reel is empty).
Scenarios ==
    {s \in [kind : {"error", "raise", "reels"}, n : 0..MaxReels, asc : BOOLEAN,
            fail : FailFates, pass : PassFates, failing : SUBSET (1..MaxReels),
            held : SUBSET (1..MaxReels), stray : BOOLEAN] :
        /\ s.kind # "reels" => s.n = 0
        /\ s.n < 2 => s.asc
        /\ s.failing \subseteq 1..s.n
        /\ s.failing = {} => s.fail = "dl_false"
        /\ (s.n = 0 \/ s.failing = 1..s.n) => s.pass = "tr_good"
        /\ \/ s.held = {}
           \/ \E k \in 1..MaxReels : s.held = 1..k \/ s.held = k..MaxReels
           \/ s.stray
        /\ s.stray => 1 \notin s.held}

Fresh  == [kind |-> "reels", n |-> MaxReels, asc |-> TRUE, fail |-> "dl_false",
           pass |-> "tr_good", failing |-> {}, held |-> {}, stray |-> FALSE]
Barren == [Fresh EXCEPT !.failing = 1..MaxReels]
Cached == [Fresh EXCEPT !.held = 1..MaxTarget]
Failed == [Fresh EXCEPT !.kind = "error", !.n = 0]

ListingOf(c, s) ==
    [kind |-> s.kind,
     reels |-> [k \in 1..s.n |-> Reel(VideoId(c, IF s.asc THEN k ELSE s.n + 1 - k))]]

FateOf(j, s) == IF j \in s.failing THEN s.fail ELSE s.pass

FileOf(j, s) ==
    IF j \in s.held THEN <<GoodText>>
    ELSE IF j = 1 /\ s.stray THEN <<EmptyText>>
    ELSE <<>>

AllPaths == CachePaths \cup JobPaths

\* The job starts in the world where creator c is in scenario scen[c], a
\* transcription method is available or not, and writing a cache file has the
\* outcome disk.
InitAcquisition(scen, method, disk) ==
    /\ feed = [listing |-> [c \in 1..MaxCreators |-> ListingOf(c, scen[c])],
               fate |-> [i \in ItemIds |->
                            IF CreatorOf(i) <= MaxCreators
                            THEN FateOf(RankOf(i), scen[CreatorOf(i)])
                            ELSE "tr_good"],
               method |-> method, disk |-> disk]
    /\ acq = NoWalk
    /\ calls = NoCalls
    /\ cache_files =
          [path \in AllPaths |->
              IF \E c \in 1..MaxCreators, j \in 1..MaxReels : path = ReelPath(c, VideoId(c, j))
              THEN LET cj == CHOOSE cj \in (1..MaxCreators) \X (1..MaxReels) :
                                path = ReelPath(cj[1], VideoId(cj[1], cj[2]))
                   IN  FileOf(cj[2], scen[cj[1]])
              ELSE <<>>]

AllFresh == [c \in 1..MaxCreators |-> Fresh]

\* One job: the collaborators' outcomes are fixed, the LLM treats every
\* transcript alike, every creator of the job is in one of four scenarios
\* (all creators have fresh reels unless the LLM, the chat and the output work).
Init ==
    /\ env \in Envs
    /\ \E d \in Disp : llm = [i \in ItemIds |-> d]
    /\ \E scen \in [1..MaxCreators -> {Fresh, Barren, Cached, Failed}] :
          /\ \A c \in 1..MaxCreators : c > env.n_creators => scen[c] = Fresh
          /\ \/ scen = AllFresh
             \/ env.chat_fails = 0 /\ env.save_ok /\ llm[1] = "ok"
          /\ InitAcquisition(scen, TRUE, "ok")
    /\ cb \in {NoCallback, QuietCallback, RaisingCallback}
    /\ InitExtractor /\ InitPipeline /\ InitCache /\ InitSide("none")

Next ==
    \/ RunStart \/ RunSetup
    \/ AcquireBegin \/ AcquireCandidate \/ AcquireEnd
    \/ RunGate \/ RunStage

Spec == Init /\ [][Next]_vars

\* One job of one or two creators and one video per creator, for every outcome
\* of the client construction and of the setup and every scenario of every
\* creator, with an LLM and an output directory that work.
InitRun ==
    /\ env \in {e \in Envs : e.chat_fails = 0 /\ e.save_ok /\ e.target = 1 /\ e.n_creators <= 2}
    /\ llm = [i \in ItemIds |-> "ok"]
    /\ \E scen \in [1..MaxCreators -> {Fresh, Barren, Cached, Failed}] :
          /\ \A c \in 1..MaxCreators : c > env.n_creators => scen[c] = Fresh
          /\ InitAcquisition(scen, TRUE, "ok")
    /\ cb = QuietCallback
    /\ InitExtractor /\ InitPipeline /\ InitCache /\ InitSide("none")

\* run with every call it makes returning: a step that can be taken is taken.
SpecRun == InitRun /\ [][Next]_vars /\ WF_vars(Next)

\* One job whose first creator is in any scenario and whose other creators
\* have fresh reels; the other collaborators work. (A creator whose cache
\* holds enough good files and no other file is never listed: its listing is
\* left as in Fresh.)
InitAcquire ==
    /\ \E n_creators \in 1..MaxCreators, target \in 1..MaxTarget :
          env = [EnvIdle EXCEPT !.n_creators = n_creators, !.target = target]
    /\ llm = [i \in ItemIds |-> "ok"]
    /\ \E first \in Scenarios, method \in BOOLEAN, disk \in WriteOutcomes :
          /\ (~first.stray /\ Cardinality(first.held) >= env.target) =>
                first = [Fresh EXCEPT !.held = first.held]
          /\ ~method => (first.fail = "dl_false" /\ first.pass = "tr_good")
          /\ disk # "ok" => (method /\ first.n > 0 /\ first.failing = {})
          /\ InitAcquisition([c \in 1..MaxCreators |-> IF c = 1 THEN first ELSE Fresh],
                             method, disk)
    /\ cb = QuietCallback
    /\ InitExtractor /\ InitPipeline /\ InitCache /\ InitSide("none")

SpecAcquire == InitAcquire /\ [][Next]_vars

\* One extract_all call, for every behaviour of the LLM per transcript.
InitExtract ==
    /\ env = EnvIdle
    /\ \E d \in [1..MaxItems -> Disp] :
          llm = [i \in ItemIds |-> IF i <= MaxItems THEN d[i] ELSE "ok"]
    /\ InitAcquisition(AllFresh, TRUE, "ok")
    /\ cb = QuietCallback
    /\ InitExtractor /\ InitPipeline /\ InitCache /\ InitSide("none")

NextExtract == ExtractAllCall \/ ExtractNextBatch \/ ExtractReturn

SpecExtract == InitExtract /\ [][NextExtract]_vars

\* Any sequence of cache operations on an initially empty cache.
InitCacheOnly ==
    /\ env = EnvIdle
    /\ llm = [i \in ItemIds |-> "ok"]
    /\ InitAcquisition(AllFresh, TRUE, "ok")
    /\ cb = QuietCallback
    /\ InitExtractor /\ InitPipeline /\ InitCache /\ InitSide("none")

NextCache == CacheSet \/ CacheGet \/ CacheDelete \/ CacheClearAll

SpecCache == InitCacheOnly /\ [][NextCache]_vars

\* One chat call, for every sequence of outcomes of the requests.
InitChat ==
    /\ env = EnvIdle
    /\ llm = [i \in ItemIds |-> "ok"]
    /\ net \in [1..(MaxRetries + 1) -> Outcomes]
    /\ chat = NoChat
    /\ InitAcquisition(AllFresh, TRUE, "ok")
    /\ cb = QuietCallback
    /\ InitExtractor /\ InitPipeline /\ InitCache /\ InitSide("client")

NextChat == ChatCall \/ ChatAttempt

SpecChat == InitChat /\ [][NextChat]_vars

\* One aggregate call on a list of validated skeletons of one job (one
\* platform), then a second call on a permutation of the list.
InitAggregate ==
    /\ env = EnvIdle
    /\ llm = [i \in ItemIds |-> "ok"]
    /\ \E n \in 0..MaxSkeletons, platform \in Platforms :
          \E creators \in [1..n -> 1..2], shapes \in [1..n -> AggShapes] :
             agg = [NoAggregate EXCEPT
                       !.input = [i \in 1..n |->
                                     AggSkeleton(i, creators[i], platform, shapes[i])]]
    /\ InitAcquisition(AllFresh, TRUE, "ok")
    /\ cb = QuietCallback
    /\ InitExtractor /\ InitPipeline /\ InitCache /\ InitSide("aggregator")

NextAggregate == AggregateCall \/ AggregateAgain

SpecAggregate == InitAggregate /\ [][NextAggregate]_vars

\* One synthesize call on the skeletons of one job, with an LLM that answers
\* the first and the second chat call in any of the three ways.
InitSynthesize ==
    /\ env = EnvIdle
    /\ llm = [i \in ItemIds |-> "ok"]
    /\ \E n \in 0..MaxSkeletons :
          \E creators \in [1..n -> 1..2], replies \in [1..2 -> Replies] :
             syn = [NoSynthesis EXCEPT
                       !.skeletons = [i \in 1..n |-> Enrich(GoodObj(i),
                                         TranscriptDict(i, creators[i], GoodText, FALSE))],
                       !.replies = replies]
    /\ InitAcquisition(AllFresh, TRUE, "ok")
    /\ cb = QuietCallback
    /\ InitExtractor /\ InitPipeline /\ InitCache /\ InitSide("synthesizer")

NextSynthesize == Synthesize

SpecSynthesize == InitSynthesize /\ [][NextSynthesize]_vars

\* Two jobs enter the loop over the reels of their creators, the same creator
\* or two, with an empty cache and an empty temporary directory; the reel
\* ranked `failing`, if any, cannot be downloaded or transcribed.
JobScenarios ==
    {Fresh} \cup {[Fresh EXCEPT !.failing = {k}, !.fail = f] :
                      k \in 1..MaxReels, f \in {"dl_false", "tr_none"}}

InitWorkers ==
    /\ env = EnvIdle
    /\ llm = [i \in ItemIds |-> "ok"]
    /\ \E scen \in JobScenarios :
          InitAcquisition([c \in 1..MaxCreators |-> scen], TRUE, "ok")
    /\ \E other \in 1..2, target \in 1..MaxTarget :
          workers = [w \in Jobs |->
                        LET c == IF w = 1 THEN 1 ELSE other
                        IN  [NoWorker EXCEPT !.pc = "check", !.creator = c,
                                             !.target = target,
                                             !.reels = sorted_reels(feed.listing[c].reels)]]
    /\ temp = {}
    /\ cb = QuietCallback
    /\ InitExtractor /\ InitPipeline /\ InitCache /\ InitSide("jobs")

NextWorkers ==
    \E w \in Jobs :
       \/ WorkerCheck(w) \/ WorkerDownload(w) \/ WorkerTranscribe(w)
       \/ WorkerCleanup(w) \/ WorkerStore(w)

SpecWorkers == InitWorkers /\ [][NextWorkers]_vars

\* The asset store from the empty database on.
InitStore ==
    /\ env = EnvIdle
    /\ llm = [i \in ItemIds |-> "ok"]
    /\ db = EmptyDb
    /\ db_ret = NoDbOp
    /\ InitAcquisition(AllFresh, TRUE, "ok")
    /\ cb = QuietCallback
    /\ InitExtractor /\ InitPipeline /\ InitCache /\ InitSide("storage")

NextStore ==
    \/ AssetCreate \/ CollectionCreate
    \/ AddToCollection \/ RemoveFromCollection
    \/ AssetDelete \/ CollectionDelete

SpecStore == InitStore /\ [][NextStore]_vars

-----------------------------------------------------------------------------
(* Claims about SkeletonRipperPipeline.run, checked under Spec *)

ChainNext(a, b) ==
    <<a, b>> \in {<<"pending", "scraping">>, <<"scraping", "extracting">>,
                  <<"extracting", "aggregating">>, <<"aggregating", "synthesizing">>,
                  <<"synthesizing", "complete">>}

\* C1: every change of progress.status during run is a step to the next state
\* of the chain pending, scraping, extracting, aggregating, synthesizing,
\* complete, or a step from a non-terminal state to failed; failed is never left.
C1_StatusChain ==
    [][status' # status =>
          \/ ChainNext(status, status')
          \/ status' = "failed" /\ status \notin {"complete", "failed"}]_vars

\* A run that went pending, scraping, extracting and then failed.
C1_Witness == status = "failed" /\ "extractor" \in invoked

AcquisitionDone == pc \notin {"start", "setup"} /\ creator_idx = env.n_creators

\* C2: when acquisition over all creators yields no valid transcript, run ends
\* failed with success = false, and neither the extractor nor the aggregator
\* nor the synthesizer is invoked, nor any LLM request issued.
C2_ZeroValidFails ==
    (AcquisitionDone /\ ValidCount(transcripts) = 0) =>
        /\ invoked = {}
        /\ llm_calls = 0
        /\ ~job.success
        /\ pc # "acquire" => (pc = "returned" /\ status = "failed")

\* Two creators were processed, none gave a transcript, and run has returned.
C2_Witness ==
    /\ pc = "returned" /\ AcquisitionDone /\ env.n_creators = 2
    /\ ValidCount(transcripts) = 0

\* C3: a successful job has at least one skeleton; when extraction returns no
\* skeleton the job ends failed, success = false, and aggregation, synthesis
\* and output are not run.
C3_SkeletonsRequired ==
    /\ job.success => job.skeletons # <<>>
    /\ ("extractor" \in invoked /\ job.skeletons = <<>>) =>
          /\ pc = "returned" /\ status = "failed" /\ ~job.success
          /\ invoked = {"extractor"}

\* Extraction ran on two transcripts and returned no skeleton.
C3_Witness ==
    /\ "extractor" \in invoked /\ job.skeletons = <<>> /\ pc = "returned"
    /\ Len(transcripts) >= 2

\* C4, as the claim states it: when the LLM answers every extraction request
\* with valid skeletons (so extraction yields a skeleton for each of the one or
\* more valid transcripts), both chat calls of the synthesis fail and the
\* output is written, run returns success = true, status complete,
\* synthesis.success = false and a synthesis-failure warning.
C4_SynthesisFailureTolerated ==
    (/\ pc = "returned" /\ "extractor" \in invoked
     /\ \A k \in 1..Len(transcripts) : llm[transcripts[k].video_id] = "ok"
     /\ env.chat_fails = 2 /\ env.save_ok) =>
        /\ job.success /\ status = "complete"
        /\ job.synthesis = <<[success |-> FALSE]>>
        /\ "Synthesis failed" \in Range(errors)

-----------------------------------------------------------------------------
(* Claims about BatchedExtractor, checked under SpecExtract *)

InputIds == BatchIds(ex_input)
SuccessfulIds == [k \in 1..Len(ex_result.successful) |-> GetVideoId(ex_result.successful[k])]

\* The ids of the input, in input order, that satisfy keep.
IdsWhere(keep(_)) == SelectSeq(InputIds, keep)

\* C5, as the claim states it: a batch of 4 in which exactly one transcript
\* makes every response holding it unparseable is split into 2+2 and the bad
\* half into 1+1 (5 requests in all); the 3 other transcripts end in successful
\* and only the bad one in failed_video_ids, wherever the bad one stands.
C5_BatchIsolation ==
    (/\ ex_pc = "done" /\ Len(ex_input) = 4 /\ batch_size = 4
     /\ \E bad \in 1..4 : /\ llm[bad] = "malformed"
                          /\ \A i \in 1..4 : i # bad => llm[i] = "ok") =>
        LET IsBad(i) == llm[i] = "malformed"
            IsGood(i) == llm[i] = "ok"
        IN  /\ SuccessfulIds = IdsWhere(IsGood)
            /\ ex_result.failed_video_ids = IdsWhere(IsBad)
            /\ Len(ex_requests) = 5
            /\ ex_requests[1] = InputIds

\* C6, as the claim states it: one completion request is issued for every
\* non-empty batch, and an id is in failed_video_ids only if a request holding
\* that transcript was sent to the LLM client.
C6_FailedOnlyAfterRequest ==
    /\ \A k \in 1..Len(ex_result.failed_video_ids) :
          ex_result.failed_video_ids[k] \in Range(InputIds) =>
             \E r \in 1..Len(ex_requests) :
                ex_result.failed_video_ids[k] \in Range(ex_requests[r])
    /\ \A b \in 1..batch_idx : BatchIds(Batches[b]) \in Range(ex_requests)

\* C7, as the claim states it: when every response parses and some objects fail
\* the per-record validation, exactly the ids of those objects are in
\* failed_video_ids, every other object is in successful, and no batch is split
\* (one request per batch).
C7_ValidationFailuresAreLocal ==
    (/\ ex_pc = "done" /\ ex_input # <<>>
     /\ \A i \in Range(InputIds) : llm[i] \in {"ok", "missing", "empty", "badenum"}
     /\ \E i \in Range(InputIds) : llm[i] # "ok") =>
        LET IsValid(i) == llm[i] = "ok"
            IsInvalid(i) == llm[i] # "ok"
        IN  /\ ex_result.failed_video_ids = IdsWhere(IsInvalid)
            /\ SuccessfulIds = IdsWhere(IsValid)
            /\ Len(ex_requests) = Len(Batches)

-----------------------------------------------------------------------------
(* Claims about TranscriptCache, checked under SpecCache *)

\* The validity predicate in the words of the claim: not blank, at least 10
\* words, no garbage pattern occurring more than half the word count.
PassesPredicate(t) ==
    /\ t.chars /\ WordCount(t) > 0
    /\ WordCount(t) >= 10
    /\ \A pattern \in garbage_patterns : 2 * PatternCount(t, pattern) <= WordCount(t)

AllEntriesPass ==
    \A path \in CachePaths : cache_exists(path) => PassesPredicate(cache_files[path][1])

\* C10, as the claim states it: set returns true exactly when the text passes
\* the predicate, and every entry of the cache passes the predicate.
C10_Original ==
    /\ cache_ret.op = "set" => (cache_ret.ret <=> PassesPredicate(cache_ret.text))
    /\ AllEntriesPass

\* C10, amended: called with validate true (the default), set returns true
\* exactly when the text passes the predicate and the file write succeeds; when
\* it returns true the entry holds the text; when the text fails the predicate
\* nothing is written; and as long as no set with validate false has written,
\* every entry of the cache passes the predicate.
C10_SetStoresIffValid ==
    /\ [][cache_ret'.op = "set" =>
            /\ cache_ret'.validate =>
                  (cache_ret'.ret <=>
                      (PassesPredicate(cache_ret'.text) /\ cache_ret'.write = "ok"))
            /\ cache_ret'.ret =>
                  cache_files' = [cache_files EXCEPT ![cache_ret'.path] = <<cache_ret'.text>>]
            /\ (cache_ret'.validate /\ ~PassesPredicate(cache_ret'.text)) =>
                  cache_files' = cache_files]_vars
    /\ [](~cache_bypass => AllEntriesPass)

\* A validated set stored a text in which a garbage pattern occurs exactly half
\* as often as there are words, while another entry is in the cache.
C10_Witness ==
    /\ cache_ret.op = "set" /\ cache_ret.validate /\ cache_ret.ret
    /\ cache_ret.text.music * 2 = WordCount(cache_ret.text)
    /\ cache_files[cache_ret.path] = <<cache_ret.text>>
    /\ \E path \in CachePaths : path # cache_ret.path /\ cache_files[path] # <<>>
    /\ ~cache_bypass

\* C11, as the claim states it: after set(platform, creator, id, t) returned
\* true for the key WatchedKey, and as long as no delete, clear_all or other set
\* on that key has happened since, a get on that key returns exactly t (get
\* reads the file of the key, so every get on that file returns what a get on
\* the key returns).
C11_GetAfterSet ==
    [][(/\ cache_ret'.op = "get"
        /\ cache_ret'.path = PathOf(WatchedKey)
        /\ cache_expect # <<>>) => cache_ret'.got = cache_expect]_vars

-----------------------------------------------------------------------------
(* Claims about the acquisition stage, checked under SpecAcquire *)

\* The positions in the returned list of the records of creator c.
RecordsOf(c) == {k \in 1..Len(transcripts) : transcripts[k].username = CreatorName(c)}

\* The cache files of creator c among `files`.
FilesOf(files, c) ==
    {path \in DOMAIN files :
        /\ files[path] # <<>>
        /\ \E j \in 1..MaxReels : path = ReelPath(c, VideoId(c, j))}

\* C13: for every creator of the job, the acquisition stage returns at most
\* videos_per_creator transcript records of that creator, on the cache
\* short-circuit path as well as on the download walk.
C13_AtMostTarget ==
    \A c \in 1..MaxCreators : Cardinality(RecordsOf(c)) <= env.target

\* Two creators were processed: the first from a cache holding more files than
\* the target, the second by a walk that met the target and left reels untried;
\* each gave exactly the target.
C13_Witness ==
    /\ env.n_creators = 2 /\ creator_idx = 2
    /\ Cardinality(FilesOf(cache_files, 1)) > env.target
    /\ \A k \in RecordsOf(1) : transcripts[k].from_cache /\ transcripts[k].views = 0
    /\ acq.creator = 2 /\ acq.how = "walk" /\ acq.idx < Len(acq.reels)
    /\ \A c \in 1..2 : Cardinality(RecordsOf(c)) = env.target

\* C14, as the claim states it: every transcript record returned by the
\* acquisition stage, cached or freshly transcribed, has a text that passes the
\* validity predicate of the cache (not blank, at least 10 words, no garbage
\* pattern occurring more than half the word count).
C14_RecordsPassCachePredicate ==
    \A k \in 1..Len(transcripts) : PassesPredicate(transcripts[k].transcript)

\* The number of valid transcripts of creator c among `files`.
ValidHeld(files, c) ==
    Cardinality({path \in FilesOf(files, c) : PassesPredicate(files[path][1])})

\* C15, as the claim states it: if the cache holds at least videos_per_creator
\* valid transcripts of a creator when the creator is processed, no download
\* call and no transcribe call is made for that creator, and the records
\* returned for it come from the cache.
C15_ShortCircuit ==
    (acq.phase # "idle" /\ ValidHeld(acq.cache0, acq.creator) >= env.target) =>
        /\ Len(calls.downloads) = acq.d0
        /\ Len(calls.transcribes) = acq.r0
        /\ \A k \in RecordsOf(acq.creator) : transcripts[k].from_cache

\* The reels listed for the creator of the walk, by descending views.
Ranked ==
    LET listed == Range(feed.listing[acq.creator].reels)
        Above(r) == Cardinality({q \in listed : q.views > r.views})
    IN  [k \in 1..Cardinality(listed) |-> CHOOSE r \in listed : Above(r) = k - 1]

\* The validity check of the loop: not blank and at least 10 words.
LoopValid(t) == t.chars /\ WordCount(t) >= 10

\* The reel had a valid transcript in the cache when the creator was reached.
Hit(r) ==
    LET file == acq.cache0[ReelPath(acq.creator, r.shortcode)]
    IN  file # <<>> /\ LoopValid(file[1])

\* Download, transcription and validity check of the reel all succeed.
Succeeds(r) ==
    /\ download_video(r.shortcode) = "true"
    /\ feed.method
    /\ ~transcribe_video(r.shortcode).raised
    /\ transcribe_video(r.shortcode).text # <<>>
    /\ LoopValid(transcribe_video(r.shortcode).text[1])

Usable(r) == Hit(r) \/ Succeeds(r)

\* The rank at which the walk stops: that of the videos_per_creator-th usable
\* reel, or the last rank.
StopRank ==
    LET good == {k \in 1..Len(Ranked) : Usable(Ranked[k])}
    IN  IF Cardinality(good) >= env.target
        THEN CHOOSE k \in good : Cardinality({g \in good : g <= k}) = env.target
        ELSE Len(Ranked)

Shortcodes(reels) == [k \in 1..Len(reels) |-> reels[k].shortcode]

\* C16: on the download walk the records returned for a creator are exactly
\* the first videos_per_creator reels, by descending views, that are usable (a
\* valid transcript in the cache, or download, transcription and the validity
\* check of the loop succeed), each with its transcript, and no reel ranked below the last of
\* them is downloaded: the downloads are the reels up to that rank that had no
\* valid transcript in the cache.
C16_FirstUsableByViews ==
    (acq.phase = "done" /\ acq.how = "walk") =>
        LET upto == SubSeq(Ranked, 1, StopRank)
            NotHit(r) == ~Hit(r)
            returned == SubSeq(transcripts, acq.t0 + 1, Len(transcripts))
        IN  /\ [k \in 1..Len(returned) |-> returned[k].video_id]
                  = Shortcodes(SelectSeq(upto, Usable))
            /\ \A k \in 1..Len(returned) :
                  LET r == SelectSeq(upto, Usable)[k]
                  IN  returned[k].transcript =
                         IF Hit(r) THEN acq.cache0[ReelPath(acq.creator, r.shortcode)][1]
                         ELSE transcribe_video(r.shortcode).text[1]
            /\ SubSeq(calls.downloads, acq.d0 + 1, Len(calls.downloads))
                  = Shortcodes(SelectSeq(upto, NotHit))

\* Of MaxReels reels listed by ascending views, the one with the most views
\* failed its download, the next ones gave the target, and the reel with the
\* fewest views was neither downloaded nor returned.
C16_Witness ==
    /\ acq.phase = "done" /\ acq.how = "walk"
    /\ Len(acq.reels) = MaxReels
    /\ feed.listing[acq.creator].reels[1].views < feed.listing[acq.creator].reels[2].views
    /\ download_video(Ranked[1].shortcode) = "false"
    /\ Len(transcripts) - acq.t0 = env.target
    /\ transcripts[acq.t0 + 1].video_id = Ranked[2].shortcode
    /\ ~transcripts[acq.t0 + 1].from_cache
    /\ Ranked[MaxReels].shortcode \notin Range(calls.downloads)
    /\ \A k \in 1..Len(transcripts) : transcripts[k].video_id # Ranked[MaxReels].shortcode

\* The download of the reel fails, or its transcription raises or gives nothing.
FailsToTranscribe(r) ==
    \/ download_video(r.shortcode) # "true"
    \/ feed.method /\ transcribe_video(r.shortcode).raised
    \/ feed.method /\ transcribe_video(r.shortcode).text = <<>>

\* The reels the walk has skipped because download or transcription failed.
SkippedRanks == {k \in 1..acq.idx : ~Hit(Ranked[k]) /\ FailsToTranscribe(Ranked[k])}

\* C17, as the claim states it: when a walk meets the target, the job has one
\* warning (an entry of progress.errors) for each reel the walk skipped because
\* its download or transcription failed, and the job is not failed.
C17_SkipsAreWarned ==
    (/\ pc = "acquire" /\ acq.phase = "done" /\ acq.how = "walk"
     /\ acq.valid_count >= env.target) =>
        /\ Len(errors) - acq.e0 = Cardinality(SkippedRanks)
        /\ status # "failed"

\* The reel the next turn of the loop is about.
NextReel == Ranked[acq.idx + 1]

\* C18: an exception raised by the download call or by the transcribe call for
\* one reel does not leave the acquisition stage: that turn of the loop appends
\* no record and no error, makes no transcribe call after a raising download,
\* leaves the status at scraping and the loop running, so that the next reel is
\* the next to be tried.
C18_ExceptionsSkip ==
    [][(/\ acq.phase = "walk" /\ acq'.idx = acq.idx + 1
        /\ ~Hit(NextReel)
        /\ \/ download_video(NextReel.shortcode) = "raise"
           \/ /\ download_video(NextReel.shortcode) = "true" /\ feed.method
              /\ transcribe_video(NextReel.shortcode).raised) =>
            /\ transcripts' = transcripts /\ errors' = errors
            /\ status' = "scraping" /\ pc' = "acquire"
            /\ acq'.phase = "walk" /\ acq'.valid_count = acq.valid_count
            /\ download_video(NextReel.shortcode) = "raise" =>
                   calls'.transcribes = calls.transcribes]_vars

\* The download of a reel raised, a reel with fewer views was transcribed and
\* returned, and the job has gone on to extraction.
C18_Witness ==
    /\ pc = "extract" /\ status = "extracting"
    /\ acq.how = "walk"
    /\ \E k \in 1..acq.idx :
          /\ ~Hit(Ranked[k]) /\ download_video(Ranked[k].shortcode) = "raise"
          /\ \E m \in (k + 1)..acq.idx :
                \E t \in Range(transcripts) :
                   t.video_id = Ranked[m].shortcode /\ ~t.from_cache

\* C19, as the claim states it: every transcript record handed to extraction
\* carries the view and like counts the listing of this run gives for its
\* video, whether its text was read from the cache or freshly transcribed.
C19_PopularityFromListing ==
    pc = "extract" =>
        \A k \in 1..Len(transcripts) :
           /\ transcripts[k].views = Reel(transcripts[k].video_id).views
           /\ transcripts[k].likes = Reel(transcripts[k].video_id).likes

\* The candidates the job has tried: the reels its walks took up and the cache
\* files its short circuits returned.
Attempted ==
    calls.attempted
      + Cardinality({k \in 1..Len(transcripts) : transcripts[k].from_cache
                                                  /\ transcripts[k].views = 0})

\* C20, as the claim states it: when the acquisition has ended with a number of
\* valid transcripts above zero and below min_valid_ratio times the number of
\* candidates tried, progress.errors holds a low-validity warning and the job
\* goes on to extraction.
C20_LowValidityWarned ==
    LET valid == Cardinality({k \in 1..Len(transcripts) :
                                 LoopValid(transcripts[k].transcript)})
    IN  (/\ pc \notin {"start", "setup", "acquire"}
         /\ valid > 0
         /\ valid * 100 < MinValidRatioPct * Attempted) =>
            /\ "Low transcript validity" \in Range(errors)
            /\ pc = "extract" \/ "extractor" \in invoked

-----------------------------------------------------------------------------
(* Claims about LLMClient.chat, checked under SpecChat *)

\* An error the client answers with a retry while retries remain: one of the
\* statuses 429, 500, 502, 503, 504, a connection error or a timeout.
Transient(o) ==
    \/ o.kind = "http" /\ o.status \in {429, 500, 502, 503, 504}
    \/ o.kind \in {"timeout", "connection"}

\* The number of requests of the call that fail with a transient error before
\* the first request that does not.
RECURSIVE LeadingTransient(_)
LeadingTransient(k) ==
    IF k < chat.max_retries + 1 /\ Transient(net[k + 1]) THEN LeadingTransient(k + 1) ELSE k

ChatOver == chat.pc \in {"returned", "raised"}

\* C21: when the first k requests (k <= max_retries) fail with a retryable
\* error and the next one succeeds, chat returns the text of that request after
\* exactly k sleeps and k + 1 attempts; when all max_retries + 1 requests fail
\* with a retryable error, the last error is raised after max_retries sleeps;
\* a call never makes more than max_retries + 1 attempts.
C21_RetryThenSucceed ==
    LET k == LeadingTransient(0)
    IN  /\ Len(chat.tried) <= chat.max_retries + 1
        /\ (ChatOver /\ k <= chat.max_retries /\ net[k + 1].kind = "ok") =>
              /\ chat.pc = "returned" /\ chat.result = <<net[k + 1]>>
              /\ Len(chat.sleeps) = k /\ Len(chat.tried) = k + 1
        /\ (ChatOver /\ k = chat.max_retries + 1) =>
              /\ chat.pc = "raised" /\ chat.result = <<net[k]>>
              /\ Len(chat.tried) = k /\ Len(chat.sleeps) = k - 1

\* The backend answered 503, 503 and then 200: the call returned after three
\* attempts and two sleeps.
C21_Witness ==
    /\ chat.pc = "returned"
    /\ [i \in 1..Len(chat.tried) |-> chat.tried[i].status] = <<503, 503, 200>>
    /\ Len(chat.sleeps) = 2

\* A failure that is not retryable: an HTTP error status that is neither 429
\* nor 5xx, or an unexpected exception.
NonRetryable(o) ==
    \/ o.kind = "http" /\ o.status >= 400 /\ o.status < 500 /\ o.status # 429
    \/ o.kind = "unexpected"

\* C22: a request that fails with a non-retryable failure ends the call: the
\* failure is raised without a sleep, however many retries remain, and a call
\* that has raised makes no further attempt.
C22_NonRetryableRaises ==
    [][/\ (/\ chat.pc = "loop" /\ chat' # chat
           /\ NonRetryable(net[chat.attempt + 1])) =>
              /\ chat'.pc = "raised"
              /\ chat'.result = <<net[chat.attempt + 1]>>
              /\ chat'.sleeps = chat.sleeps
              /\ Len(chat'.tried) = Len(chat.tried) + 1
       /\ chat.pc = "raised" => chat' = chat]_vars

\* After one retried request the backend answered 400 while a retry remained:
\* the call raised that error after two attempts and one sleep.
C22_Witness ==
    /\ chat.pc = "raised"
    /\ chat.result = <<[kind |-> "http", status |-> 400]>>
    /\ Len(chat.tried) = 2 /\ Len(chat.sleeps) = 1
    /\ chat.attempt < chat.max_retries

\* Retryable, in the words of the claim: HTTP 429, every HTTP 5xx status, a
\* connection error, a timeout.
Retryable(o) ==
    \/ o.kind = "http" /\ (o.status = 429 \/ (o.status >= 500 /\ o.status <= 599))
    \/ o.kind \in {"timeout", "connection"}

\* C23, as the claim states it: while retries remain, a failed request is
\* followed by a sleep and another attempt exactly when its failure is HTTP
\* 429, an HTTP 5xx status, a connection error or a timeout.
C23_Classification ==
    [][(/\ chat.pc = "loop" /\ chat' # chat
        /\ net[chat.attempt + 1].kind # "ok"
        /\ chat.attempt < chat.max_retries) =>
           (chat'.pc = "loop" <=> Retryable(net[chat.attempt + 1]))]_vars


-----------------------------------------------------------------------------
(* Claims about SkeletonAggregator.aggregate, checked under SpecAggregate *)

\* The overall statistics of a result: everything but the skeleton list and
\* the per-creator list.
OverallStats(r) ==
    [total_videos |-> r.total_videos, total_views |-> r.total_views,
     valid_skeletons |-> r.valid_skeletons,
     overall_hook_techniques |-> r.overall_hook_techniques,
     overall_value_structures |-> r.overall_value_structures,
     overall_cta_types |-> r.overall_cta_types,
     avg_hook_word_count |-> r.avg_hook_word_count,
     avg_total_word_count |-> r.avg_total_word_count,
     avg_duration_seconds |-> r.avg_duration_seconds]

C25_NeverRaises ==
    agg.pc # "idle" =>
        LET result == agg.out[1]
        IN  /\ ~result.raised
            /\ agg.input = <<>> =>
                  /\ result.total_videos = 0 /\ result.total_views = 0
                  /\ result.valid_skeletons = 0 /\ result.creator_stats = <<>>
                  /\ result.avg_hook_word_count = NoMean
                  /\ result.avg_total_word_count = NoMean
                  /\ result.avg_duration_seconds = NoMean

-----------------------------------------------------------------------------
(* Claims about PatternSynthesizer.synthesize, checked under SpecSynthesize *)

\* The k-th attempt fails when the LLM does not answer its chat call with a text.
AttemptFailed(k) == syn.replies[k] # "text"

-----------------------------------------------------------------------------
(* Claims about the progress callback of run, checked under Spec *)

\* C27: with a progress callback supplied, every value progress.status takes
\* after PENDING has been passed to the callback by the end of the step that
\* assigned it, hence before the status changes again or run returns; a step
\* changes the status only to that one value.
C27_StatusObserved ==
    /\ cb.supplied /\ status # "pending" => status \in cb.seen
    /\ cb.supplied => cb.seen \subseteq {"scraping", "extracting", "aggregating",
                                          "synthesizing", "complete", "failed"}

\* A run that went through acquisition and extraction and failed there: the
\* callback was called with each of the three statuses.
C27_Witness ==
    /\ pc = "returned"
    /\ cb.supplied
    /\ status = "failed"
    /\ "extractor" \in invoked
    /\ cb.seen = {"scraping", "extracting", "failed"}

\* The reasons for which run itself gives up.
GenuineFailures ==
    {"Missing API key", "Cookies file not found", "No valid transcripts to process",
     "No skeletons extracted successfully", "'>' not supported", "output write failed"}

\* C28: an exception of the progress callback is caught at every invocation:
\* it is never recorded as an error of the job, the job is FAILED only for a
\* reason of its own, and no stage is skipped: a run whose client and session
\* were set up and that acquired a valid transcript went through the
\* extraction, whether or not the callback raised.
C28_CallbackErrorsCaught ==
    /\ \A k \in 1..Len(errors) : errors[k] # "callback raised"
    /\ status = "failed" => errors # <<>> /\ Last(errors) \in GenuineFailures
    /\ (pc = "returned" /\ env.client_ok /\ env.setup_ok /\ ValidCount(transcripts) > 0)
          => "extractor" \in invoked
    /\ (pc = "returned" /\ env.client_ok /\ env.setup_ok)
          => creator_idx = env.n_creators

\* A run whose callback raised during acquisition and extraction and that went
\* through both stages.
C28_Witness ==
    /\ pc = "returned"
    /\ cb.raising /\ cb.caught
    /\ Len(transcripts) > 0
    /\ "extractor" \in invoked
    /\ cb.seen = {"scraping", "extracting", "failed"}

-----------------------------------------------------------------------------
(* Claims about jobs running at the same time, checked under SpecWorkers *)

\* What a job acquires when it runs alone on an empty cache: the transcripts
\* of the first `target` reels, by views, that can be downloaded and
\* transcribed to a valid text.
AloneReels(w) ==
    LET usable == SelectSeq(workers[w].reels,
                            LAMBDA r : feed.fate[r.shortcode] \in PassFates)
    IN  SubSeq(usable, 1, Min(workers[w].target, Len(usable)))

SameTranscriptsAsAlone(w) ==
    /\ Len(workers[w].got) = Len(AloneReels(w))
    /\ \A k \in 1..Len(workers[w].got) :
          /\ workers[w].got[k].video_id = AloneReels(w)[k].shortcode
          /\ <<workers[w].got[k].transcript>> = transcribe_video(AloneReels(w)[k].shortcode).text

CacheReadsComplete(w) ==
    \A k \in 1..Len(workers[w].got) :
       workers[w].got[k].from_cache =>
          <<workers[w].got[k].transcript>> = transcribe_video(workers[w].got[k].video_id).text

\* C29: jobs running at the same time do not interfere: whatever the
\* interleaving, a job that has left the loop over its reels holds the
\* transcripts it would hold had it run alone with the same downloads and
\* transcriptions, and every transcript it read from the cache is the complete
\* text written for that reel.
C29_NoInterference ==
    \A w \in Jobs :
       /\ workers[w].pc = "done" => SameTranscriptsAsAlone(w)
       /\ CacheReadsComplete(w)

-----------------------------------------------------------------------------
(* Claims about the asset store, checked under SpecStore *)

\* The assets get_assets lists for collection c, page after page of `limit`.
ListedAssets(c, limit) ==
    UNION {Range(get_assets(c, limit, page * limit)) : page \in 0..MaxAssets}

\* C30: membership of an asset in a collection behaves as a set. After
\* asset.add_to_collection(c) returned, the pages of c.get_assets list the
\* asset, asset.get_collections lists c, and c.asset_count() counts the asset
\* once, also when it was a member before: the count is the number of assets
\* listed. After asset.remove_from_collection(c), asset.get_collections does
\* not list c and c.get_assets does not list the asset.
C30_MembershipIsASet ==
    LET a == db_ret.asset
        c == db_ret.collection
    IN  /\ db_ret.op = "add" /\ ~db_ret.raised =>
              /\ \A limit \in 1..MaxAssets : a \in ListedAssets(c, limit)
              /\ c \in get_collections(a)
              /\ db.asset_collections[<<a, c>>] = 1
              /\ asset_count(c) = Cardinality(ListedAssets(c, MaxAssets))
        /\ db_ret.op = "remove" =>
              /\ c \notin get_collections(a)
              /\ \A limit \in 1..MaxAssets : a \notin ListedAssets(c, limit)

\* An asset added a second time to a collection that holds two assets.
C30_Witness ==
    /\ db_ret.op = "add" /\ ~db_ret.raised /\ db_ret.again
    /\ asset_count(db_ret.collection) = 2
    /\ Len(get_assets(db_ret.collection, 1, 1)) = 1

-----------------------------------------------------------------------------
(* The validity decision of the acquisition loop, checked under SpecAcquire *)

\* The record the last turn of the walk appended, and the reel it was made of.
LastReel == acq.reels[acq.idx]
LastRecord == transcripts[Len(transcripts)]

\* C31, as the claim states it: the loop counts a freshly transcribed text
\* toward the target if and only if cache.set accepts and stores it, so every
\* freshly transcribed record that was counted is present in the cache
\* afterwards (the file write itself succeeding).
C31_CountedIffCached ==
    (acq.phase = "walk" /\ acq.last = "transcribed" /\ feed.disk = "ok") =>
        /\ cache_is_valid_transcript(LastRecord.transcript)
        /\ cache_files[ReelPath(acq.creator, LastReel.shortcode)]
               = <<LastRecord.transcript>>

-----------------------------------------------------------------------------
(* Batching, checked under SpecExtract *)

\* C32: the effective batch size is the requested size clamped into 1..5, and
\* extract_all cuts the input into consecutive batches in input order, each of
\* exactly that size except possibly the last, which is not empty; the batches
\* concatenated give the input back, so every transcript is in exactly one
\* batch.
C32_ClampedPartition ==
    ex_pc # "idle" =>
        /\ batch_size \in 1..5
        /\ requested_size < 1 => batch_size = 1
        /\ requested_size > 5 => batch_size = 5
        /\ requested_size \in 1..5 => batch_size = requested_size
        /\ Concat(Batches) = ex_input
        /\ \A b \in 1..Len(Batches) :
              /\ Batches[b] # <<>>
              /\ Len(Batches[b]) <= batch_size
              /\ b < Len(Batches) => Len(Batches[b]) = batch_size
        /\ \A i \in 1..Len(ex_input) :
              \E b \in 1..Len(Batches) :
                 /\ ex_input[i] \in Range(Batches[b])
                 /\ \A other \in 1..Len(Batches) :
                       ex_input[i] \in Range(Batches[other]) => other = b

\* extract_all went through four transcripts in batches of an in-range size,
\* the last batch being shorter than the others.
C32_Witness ==
    /\ ex_pc = "done" /\ requested_size = 3 /\ batch_size = 3
    /\ Len(ex_input) = 4 /\ batch_idx = 2
    /\ Len(Batches[1]) = 3 /\ Len(Batches[2]) = 1

-----------------------------------------------------------------------------
(* Split-and-retry and the accounting of extract_all, checked under SpecExtract *)

\* The transcript makes every response to a prompt holding it unparseable.
Unparseable(i) == llm[i] = "malformed"

\* C34, as the claim states it: when each transcript either makes a response
\* unparseable or would be extracted well on its own, an item is in
\* failed_video_ids only if it is itself one that makes a response unparseable;
\* split-and-retry never fails an item whose own singleton request would
\* succeed.
C34_OnlyBadItemsFail ==
    (/\ ex_pc = "done"
     /\ \A k \in 1..Len(ex_input) : llm[ex_input[k].video_id] \in {"ok", "malformed"}) =>
        \A k \in 1..Len(ex_result.failed_video_ids) :
            Unparseable(ex_result.failed_video_ids[k])

\* How often the id occurs in a sequence of ids.
Occurrences(ids, id) == Cardinality({k \in 1..Len(ids) : ids[k] = id})

C37_AttemptsCountRequests ==
    ex_pc = "done" => ex_result.total_attempts = Len(ex_requests)

-----------------------------------------------------------------------------
(* The outcome of run, checked under SpecRun *)

\* C36: when every collaborator call returns, run returns; it returns with
\* status complete or failed, and with success = true exactly when the status
\* is complete (so a run that fails, at whatever stage, returns failed with
\* success = false).
C36_RunReturns ==
    /\ <>(pc = "returned")
    /\ [](pc = "returned" =>
            /\ status \in {"complete", "failed"}
            /\ job.success <=> status = "complete")

\* run has returned from a failure after the acquisition gave transcripts:
\* failed, success = false and the error recorded.
C36_Witness ==
    /\ pc = "returned" /\ status = "failed" /\ ~job.success
    /\ transcripts # <<>> /\ errors # <<>>

-----------------------------------------------------------------------------
(* The timeout of the shared LLM client, checked under SpecSynthesize *)

\* C38, as the claim states it: after synthesize has returned, on a first
\* attempt that succeeds, on a retry that succeeds and on a retry that fails
\* alike, the timeout of the LLM client is the one it had before the call.
C38_TimeoutRestored ==
    syn.pc = "returned" => syn.result[1].timeout = CLIENT_TIMEOUT

-----------------------------------------------------------------------------
(* Cache keys and cache entries, checked under SpecCache *)

\* The step is one that set(key, ...) or delete(key) makes.
StepOn(key) ==
    /\ cache_ret'.op \in {"set", "delete"}
    /\ cache_ret'.path = PathOf(key)
    /\ cache_expect' = IF key # WatchedKey THEN cache_expect
                       ELSE IF cache_ret'.op = "set" /\ cache_ret'.ret /\ cache_ret'.validate
                       THEN <<cache_ret'.text>>
                       ELSE <<>>

\* What get and exists return for the key on the files `files`.
Answers(files, key) ==
    [get    |-> cache_get(files, PathOf(key)),
     exists |-> files[PathOf(key)] # <<>> /\ files[PathOf(key)][1].chars]

\* C39, as the claim states it: a set or a delete on one key never changes what
\* get or exists returns for a different key, two keys being different also
\* when they differ only in the letter case of the creator or in where an
\* underscore falls.
C39_KeysAreIndependent ==
    [][\A key, other \in CacheKeys :
          (key # other /\ StepOn(key)) =>
              Answers(cache_files', other) = Answers(cache_files, other)]_vars

\* The records the short-circuit path builds for the creator when the file is
\* the first one the directory listing gives.
RecordsFrom(username, path) == cached_records(cache_files, username, <<path>>, 1)

\* C40, as the claim states it: a record the cache short-circuit path builds
\* for a creator comes from a transcript stored under (platform, creator, id)
\* for that creator, id being the id of the record: the file it was read from
\* is the one that key addresses, also when the id or a creator name holds an
\* underscore.
C40_RecordsKeepTheirKey ==
    \A platform \in CachePlatforms, username \in CacheUsernames :
       \A path \in glob(cache_files, platform, username) :
          \A k \in 1..Len(RecordsFrom(username, path)) :
             get_cache_path(platform, username, RecordsFrom(username, path)[k].video_id) = path

====
